---- MODULE Spec2Model ----
(***************************************************************************)
(* Model of the guacamole-connection-tester client: the connection test    *)
(* scheduler (connectionTestingService.js), the Result / Status /          *)
(* Statistics types it uses, the callers that start it, the sampler        *)
(* (statisticalMeasurementService) that measures one server, the           *)
(* Thresholds classifier, and the server's cached JSON configuration.      *)
(*                                                                         *)
(* JavaScript values that may be null / undefined are modelled as          *)
(* sequences of length <= 1: None is null/undefined, Some(v) is v.         *)
(* Strings that the code inspects (URLs) are sequences of tokens, each     *)
(* token either the character "/" or a maximal run of non-"/" characters.  *)
(***************************************************************************)
EXTENDS Integers, Sequences, FiniteSets, TLC

VARIABLES
    servers,            \* the server map served by api/ext/conntest/servers, in enumeration order
    heap,               \* every Result object constructed so far (index = object identity)
    currentResults,     \* None, or Some(array of Result identities)
    activeTests,        \* own keys of the activeTests object
    runs,               \* one entry per receivedServerList call: its queue array and concurrency
    inFlight,           \* samplers started and not yet settled: the Result and the run of each
    requests,           \* getServers() promises not yet resolved: the concurrency argument of each call
    restoring,          \* restoreResults() calls made, the packed string of each whose
                        \* getServers() promise is not yet resolved, and (history) the
                        \* numbers of calls whose unpack threw and whose unpack returned
    calls,              \* number of startTest() calls made so far
    callLimit,          \* number of startTest() calls the callers make
    deferredState,      \* "pending" or "resolved": state of deferredResults
    resolvedWith,       \* None, or Some(array the promise was resolved with)
    notifications,      \* Status objects passed to deferredResults.notify, in order
    polled,             \* the Status most recently returned to a polling caller
    trace,              \* history: Result identities in the order their samplers were started
    lastEvent,          \* history: the handler that ran last and what it was given
    measurement,        \* statisticalMeasurementService: one getRoundTripStatistics() operation
    classifier,         \* the Thresholds object configService provides, and what it was asked
    cachedJSON,         \* server side: one CachedJSON object and the JSON file it reads
    permalink,          \* Result.pack / Result.unpack: one set of results, packed and unpacked
    computed,           \* one sample array and the Statistics objects constructed from it
    probe,              \* timingService: one getTimestamps() request
    recommendation      \* the recommendation of a better server made when the test completed

\* The connection test and its callers
tester == <<servers, heap, currentResults, activeTests, runs, inFlight, requests,
            restoring, calls, callLimit, deferredState, resolvedWith, notifications, polled, trace,
            lastEvent>>

\* What the connection test only reaches through promises
others == <<measurement, classifier, cachedJSON, permalink, computed, probe, recommendation>>

vars == <<tester, others>>

\* What the scheduler itself holds
scheduler == <<heap, currentResults, activeTests, runs, inFlight, deferredState,
               resolvedWith, notifications>>

----------------------------------------------------------------------------
(* Bounds of the model *)

\* Longest server list of a test started by one startTest() call
MaxServers == 3
\* Most startTest() calls when several callers start the test
MaxStartCalls == 2

----------------------------------------------------------------------------
(* null / undefined *)

None == <<>>
Some(v) == <<v>>
IsNone(x) == x = <<>>
Get(x) == x[1]

Min(a, b) == IF a <= b THEN a ELSE b

----------------------------------------------------------------------------
(* Statistics.js.  Samples are integer milliseconds.  Derived values are    *)
(* kept exactly in fixed point: median and medianAbsoluteDeviation are      *)
(* stored in quarter milliseconds (value * 4); meanAbsoluteDeviation is the *)
(* fraction num / den of quarter milliseconds.                              *)

RECURSIVE Insert(_, _)
Insert(x, sorted) ==
    IF sorted = <<>> THEN <<x>>
    ELSE IF x <= Head(sorted) THEN <<x>> \o sorted
    ELSE <<Head(sorted)>> \o Insert(x, Tail(sorted))

\* samples.slice().sort(numericComparator)
RECURSIVE Sort(_)
Sort(s) == IF s = <<>> THEN <<>> ELSE Insert(Head(s), Sort(Tail(s)))

RECURSIVE Sum(_)
Sum(s) == IF s = <<>> THEN 0 ELSE Head(s) + Sum(Tail(s))

\* getMedian that takes the upper of the two middle samples, times two
getMedianUpper2(samples) ==
    LET length == Len(samples) IN
    IF length = 0 THEN 0
    ELSE IF length % 2 = 1 THEN 2 * samples[(length - 1) \div 2 + 1]
    ELSE 2 * samples[length \div 2 + 1]

\* getMedian, times two (so that the even-length average stays an integer)
getMedian2(samples) ==
    LET length == Len(samples) IN
    IF length = 0 THEN 0
    ELSE IF length % 2 = 1 THEN 2 * samples[(length - 1) \div 2 + 1]
    ELSE samples[length \div 2] + samples[length \div 2 + 1]

Abs(x) == IF x < 0 THEN -x ELSE x

\* getAbsoluteDeviations, of doubled samples from a doubled value
getAbsoluteDeviations2(samples, value2) ==
    [i \in 1..Len(samples) |-> Abs(2 * samples[i] - value2)]

\* getMean that rounds the average down to whole quarter milliseconds
getMeanRounded4(deviations2) ==
    IF Len(deviations2) = 0 THEN [num |-> 0, den |-> 1]
    ELSE [num |-> (2 * Sum(deviations2)) \div Len(deviations2), den |-> 1]

\* getMean of the doubled deviations, as a fraction of quarter milliseconds
getMean4(deviations2) ==
    IF Len(deviations2) = 0 THEN [num |-> 0, den |-> 1]
    ELSE [num |-> 2 * Sum(deviations2), den |-> Len(deviations2)]

Statistics(samples) ==
    LET sorted == Sort(samples)
        median2 == getMedian2(sorted)
        deviations2 == Sort(getAbsoluteDeviations2(sorted, median2))
    IN [samples |-> sorted,
        median |-> 2 * median2,
        meanAbsoluteDeviation |-> getMean4(deviations2),
        medianAbsoluteDeviation |-> getMedian2(deviations2)]

----------------------------------------------------------------------------
(* Result.js *)

WORST_TOLERABLE_LATENCY == 220
NICENESS_BINS == 4

\* ((a + W)^3 - W^3) / W, rounded down, for 0 <= a < W: the cube of
\* (rtt / WORST_TOLERABLE_LATENCY + 1) without leaving 32-bit integers
CubeExcess(a, W) == 3 * W * a + 3 * a * a + (a * a * a) \div W

\* Result.getNiceness: min(NICENESS_BINS - 1, floor(log2(rtt / W + 1) * (NICENESS_BINS - 1))).
\* floor(3 * log2(y)) >= k exactly when y^3 >= 2^k.
ResultGetNiceness(stats) ==
    LET W == 4 * WORST_TOLERABLE_LATENCY
        a == stats.median + stats.medianAbsoluteDeviation
    IN IF a >= W THEN NICENESS_BINS - 1
       ELSE IF CubeExcess(a, W) >= 3 * W * W THEN 2
       ELSE IF CubeExcess(a, W) >= W * W THEN 1
       ELSE 0

\* new Result(template)
NewResult(name, server) ==
    [name |-> name, server |-> server, niceness |-> None,
     roundTripStatistics |-> None, complete |-> FALSE]

----------------------------------------------------------------------------
(* Status.js *)

\* new Status(template)
Status(remaining, total, complete, running, started) ==
    [remaining |-> remaining, total |-> total, complete |-> complete,
     running |-> running, started |-> started]

----------------------------------------------------------------------------
(* connectionTestingService.js *)

DEFAULT_CONCURRENCY == 4

\* Names every JavaScript object inherits from Object.prototype: reading
\* activeTests[name] for one of them yields a function or object (truthy)
\* although activeTests = {} has no such own key.
ObjectPrototypeKeys ==
    {"constructor", "hasOwnProperty", "isPrototypeOf", "propertyIsEnumerable",
     "toLocaleString", "toString", "valueOf", "__proto__",
     "__defineGetter__", "__defineSetter__", "__lookupGetter__", "__lookupSetter__"}

\* Index of the first "/" of url at or after position i, or 0
RECURSIVE FirstSlash(_, _)
FirstSlash(url, i) ==
    IF i > Len(url) THEN 0
    ELSE IF url[i] = "/" THEN i
    ELSE FirstSlash(url, i + 1)

\* getDomain: /^[^\/]*\/\/([^\/]*)/.exec(url), then matches && matches[1]
getDomain(url) ==
    LET i == FirstSlash(url, 1) IN
    IF i = 0 \/ i + 1 > Len(url) \/ url[i + 1] # "/" THEN None
    ELSE IF i + 2 > Len(url) \/ url[i + 2] = "/" THEN Some("")
    ELSE Some(url[i + 2])

\* The property name activeTests[domain] uses: String(domain)
PropertyKey(domain) == IF IsNone(domain) THEN "null" ELSE Get(domain)

\* The value of activeTests[domain] is truthy
IsActive(active, domain) ==
    PropertyKey(domain) \in active \/ PropertyKey(domain) \in ObjectPrototypeKeys

\* getRemaining counting the complete Results
getRemainingComplete(cr, h) ==
    IF IsNone(cr) THEN 0
    ELSE Cardinality({i \in 1..Len(Get(cr)) : h[Get(cr)[i]].complete})

\* getRemaining that stops counting at the first Result that is complete
getRemainingUntilComplete(cr, h) ==
    IF IsNone(cr) THEN 0
    ELSE Cardinality({i \in 1..Len(Get(cr)) :
                         \A j \in 1..i : ~h[Get(cr)[j]].complete})

\* getRemaining, for the given value of currentResults and of the heap
getRemaining(cr, h) ==
    IF IsNone(cr) THEN 0
    ELSE Len(Get(cr)) - Cardinality({i \in 1..Len(Get(cr)) : h[Get(cr)[i]].complete})

\* service.getStatus
getStatus(cr, h) ==
    IF IsNone(cr) THEN Status(0, 0, FALSE, FALSE, FALSE)
    ELSE LET remaining == getRemaining(cr, h)
         IN Status(remaining, Len(Get(cr)), remaining = 0, remaining # 0, TRUE)

\* testServers without its check of activeTests[domain]
testServersUnchecked(st, h) ==
    IF st.results = <<>> THEN st
    ELSE [results |-> Tail(st.results),
          activeTests |-> st.activeTests \cup
                              {PropertyKey(getDomain(h[Head(st.results)].server))},
          started |-> Append(st.started, Head(st.results))]

\* testServers reading results[0] without removing it from the queue
testServersNoShift(st, h) ==
    IF st.results = <<>> THEN st
    ELSE IF IsActive(st.activeTests, getDomain(h[Head(st.results)].server)) THEN st
    ELSE [results |-> st.results,
          activeTests |-> st.activeTests \cup
                              {PropertyKey(getDomain(h[Head(st.results)].server))},
          started |-> Append(st.started, Head(st.results))]

\* testServers that passes over Results whose destination is busy and starts
\* the first one whose destination is free
RECURSIVE testServersSkipBusy(_, _)
testServersSkipBusy(st, h) ==
    IF st.results = <<>> THEN st
    ELSE LET result == Head(st.results)
             domain == getDomain(h[result].server)
         IN IF IsActive(st.activeTests, domain)
            THEN LET rest == testServersSkipBusy([st EXCEPT !.results = Tail(@)], h)
                 IN [rest EXCEPT !.results = <<result>> \o @]
            ELSE [results |-> Tail(st.results),
                  activeTests |-> st.activeTests \cup {PropertyKey(domain)},
                  started |-> Append(st.started, result)]

\* testServers up to the point where the sampler has been started.  st holds
\* the queue array (results), the own keys of activeTests and the Results
\* whose sampler this fill has started.
testServers(st, h) ==
    IF st.results = <<>> THEN st
    ELSE LET result == Head(st.results)
             domain == getDomain(h[result].server)
         IN IF IsActive(st.activeTests, domain) THEN st
            ELSE [results |-> Tail(st.results),
                  activeTests |-> st.activeTests \cup {PropertyKey(domain)},
                  started |-> Append(st.started, result)]

\* The loop of spawnTests: testServers is called for i = 0 .. spawnCount - 1
RECURSIVE SpawnLoop(_, _, _, _)
SpawnLoop(i, spawnCount, st, h) ==
    IF i < spawnCount THEN SpawnLoop(i + 1, spawnCount, testServers(st, h), h)
    ELSE st

\* spawnTests whose loop runs once too often (i <= spawnCount)
spawnTestsInclusive(results, concurrency, active, h) ==
    SpawnLoop(0, concurrency - Cardinality(active) + 1,
              [results |-> results, activeTests |-> active, started |-> <<>>], h)

\* spawnTests(results, concurrency)
spawnTests(results, concurrency, active, h) ==
    LET spawnCount == concurrency - Cardinality(active)
    IN SpawnLoop(0, spawnCount,
                 [results |-> results, activeTests |-> active, started |-> <<>>], h)

\* A settled Result whose failure is given the worst niceness of getNiceness
SettledResultWorstBin(result, outcome) ==
    [result EXCEPT !.niceness = IF IsNone(outcome) THEN Some(NICENESS_BINS - 1)
                                ELSE Some(ResultGetNiceness(Get(outcome))),
                   !.roundTripStatistics = outcome,
                   !.complete = TRUE]

\* What roundTripTimeMeasured or the catch handler, and then the finally
\* handler, assign to the Result
SettledResult(result, outcome) ==
    [result EXCEPT !.niceness = IF IsNone(outcome) THEN Some(NICENESS_BINS)
                                ELSE Some(ResultGetNiceness(Get(outcome))),
                   !.roundTripStatistics = outcome,
                   !.complete = TRUE]

\* Resolving with the queue array of testServers instead of currentResults
ResolutionValueQueue(cr, results) == Some(results)

\* deferredResults.resolve(currentResults) in the finally handler, which also
\* has the queue array (results) in scope
ResolutionValue(cr, results) == cr

\* A notify that leaves out the status of a finished test
NotifyWhileRunning(ns, state, status) ==
    IF state = "pending" /\ ~status.complete THEN Append(ns, status) ELSE ns

\* deferredResults.notify(status): ignored once the deferred is resolved
Notify(ns, state, status) == IF state = "pending" THEN Append(ns, status) ELSE ns

\* concurrency || DEFAULT_CONCURRENCY
EffectiveConcurrency(c) ==
    IF IsNone(c) \/ Get(c) = 0 THEN DEFAULT_CONCURRENCY ELSE Get(c)

----------------------------------------------------------------------------
(* Inputs *)

UrlA == <<"https:", "/", "/", "a.example", "/">>
UrlB == <<"https:", "/", "/", "a.example", "/", "path2", "/">>
UrlC == <<"https:", "/", "/", "b.example", "/">>
UrlProto == <<"http:", "/", "/", "constructor", "/", "guacamole">>
UrlRelative == <<"a.example", "/", "guacamole">>

Urls == {UrlA, UrlB, UrlC, UrlProto, UrlRelative}

\* Server lists with distinct and with shared destinations, for several callers
UrlsRestarted == {UrlA, UrlB, UrlC}
ServerListsRestarted == UNION {[1..n -> UrlsRestarted] : n \in 0..2}

ServerLists(urls, longest) == UNION {[1..n -> urls] : n \in 0..longest}

\* Concurrency arguments callers pass: undefined, or the parsed "n" parameter
ConcurrencyArgs == {None, Some(-1), Some(0), Some(1), Some(2)}

\* Sample set a sampler resolves with
SampleInputs == {<<48, 52, 50>>}

\* Outcomes of getRoundTripStatistics: rejected, or resolved with Statistics
Outcomes == {None} \cup {Some(Statistics(s)) : s \in SampleInputs}

----------------------------------------------------------------------------
(* Behaviour *)

\* History record of one handler execution
Event(op, result, run, rejected) ==
    [op |-> op, result |-> result, run |-> run, rejected |-> rejected]

Constructed ==
    /\ heap = <<>>
    /\ currentResults = None
    /\ activeTests = {}
    /\ runs = <<>>
    /\ inFlight = {}
    /\ requests = <<>>
    /\ restoring = [calls |-> 0, pending |-> <<>>, failed |-> 0, restored |-> 0]
    /\ calls = 0
    /\ deferredState = "pending"
    /\ resolvedWith = None
    /\ notifications = <<>>
    /\ polled = getStatus(None, <<>>)
    /\ trace = <<>>
    /\ lastEvent = Event("constructed", 0, 0, FALSE)

\* No measurement has been asked for
Idle(network) ==
    [network |-> network, samples |-> <<>>, request |-> "none", stats |-> None,
     elapsed |-> 0, pings |-> 0, pinging |-> 0]

\* The server side is not looked at
Unread == <<>>

\* Nothing has been packed, no Statistics constructed, no timestamps requested
Unpacked == <<>>
Unsampled == <<>>
Unprobed == <<>>

\* No test has completed
Unrecommended == <<>>

\* The services the other components do not call
Untouched ==
    /\ permalink = Unpacked
    /\ computed = Unsampled
    /\ probe = Unprobed
    /\ recommendation = Unrecommended

\* No thresholds have been retrieved
Unclassified ==
    [thresholds |-> None, template |-> <<>>, asked |-> None, colored |-> None,
     settled |-> None]

OthersConstructed ==
    /\ measurement = Idle({})
    /\ classifier = Unclassified
    /\ cachedJSON = Unread
    /\ Untouched

\* One caller starts the test
Init ==
    /\ servers \in ServerLists(Urls, MaxServers)
    /\ callLimit = 1
    /\ Constructed
    /\ OthersConstructed

\* Several callers start the test (automaticConnectionTest on login, the
\* report's start button, the recommendation directive)
InitRestarted ==
    /\ servers \in ServerListsRestarted
    /\ callLimit = MaxStartCalls
    /\ Constructed
    /\ OthersConstructed

\* service.startTest(concurrency), up to the call of configService.getServers()
StartTest(concurrency) ==
    /\ calls < callLimit
    /\ calls' = calls + 1
    /\ requests' = IF ~IsNone(currentResults) THEN requests
                   ELSE Append(requests, concurrency)
    /\ lastEvent' = Event("startTest", 0, 0, FALSE)
    /\ UNCHANGED <<servers, heap, currentResults, activeTests, runs, inFlight, restoring,
                   callLimit, deferredState, resolvedWith, notifications, polled, trace>>
    /\ UNCHANGED others

\* receivedServerList of startTest: the oldest getServers() promise resolves
ReceivedServerList ==
    /\ requests # <<>>
    /\ LET concurrency == Head(requests)
           created == [i \in 1..Len(servers) |-> NewResult(i, servers[i])]
           ids == [i \in 1..Len(servers) |-> Len(heap) + i]
           h == heap \o created
           st == spawnTests(ids, EffectiveConcurrency(concurrency), activeTests, h)
       IN /\ requests' = Tail(requests)
          /\ heap' = h
          /\ currentResults' = Some(ids)
          /\ notifications' = Notify(notifications, deferredState, getStatus(Some(ids), h))
          /\ runs' = Append(runs, [results |-> st.results,
                                   concurrency |-> EffectiveConcurrency(concurrency),
                                   argument |-> concurrency])
          /\ lastEvent' = Event("receivedServerList", 0, Len(runs) + 1, FALSE)
          /\ activeTests' = st.activeTests
          /\ inFlight' = inFlight \cup {[result |-> st.started[i], run |-> Len(runs) + 1] :
                                            i \in 1..Len(st.started)}
          /\ trace' = trace \o st.started
    /\ UNCHANGED <<servers, restoring, calls, callLimit, deferredState, resolvedWith, polled>>
    /\ UNCHANGED others

\* The handlers testServers chains on the sampler's promise: roundTripTimeMeasured
\* or the catch handler, then the finally handler.  No other handler reads a
\* Result's niceness or statistics, so the chain is one step.  This is what
\* the handlers do to the connection test.
SamplerHandlers(sampler, outcome) ==
    /\ sampler \in inFlight
    /\ LET result == sampler.result
           run == sampler.run
           domain == getDomain(heap[result].server)
           h == [heap EXCEPT ![result] = SettledResult(@, outcome)]
           active == activeTests \ {PropertyKey(domain)}
           finished == getRemaining(currentResults, h) = 0
           st == spawnTests(runs[run].results, runs[run].concurrency, active, h)
       IN /\ heap' = h
          /\ notifications' = Notify(notifications, deferredState, getStatus(currentResults, h))
          /\ deferredState' = IF finished THEN "resolved" ELSE deferredState
          /\ resolvedWith' = IF finished /\ deferredState = "pending"
                             THEN ResolutionValue(currentResults, runs[run].results)
                             ELSE resolvedWith
          /\ runs' = [runs EXCEPT ![run].results = st.results]
          /\ lastEvent' = Event("settled", result, run, IsNone(outcome))
          /\ activeTests' = st.activeTests
          /\ inFlight' = (inFlight \ {sampler}) \cup
                              {[result |-> st.started[i], run |-> run] : i \in 1..Len(st.started)}
          /\ trace' = trace \o st.started
    /\ UNCHANGED <<servers, currentResults, requests, restoring, calls, callLimit, polled>>

\* The promise of a sampler settles, with Statistics or rejected
SamplerSettled(sampler, outcome) ==
    /\ SamplerHandlers(sampler, outcome)
    /\ UNCHANGED others

\* A caller polls service.getStatus()
GetStatus ==
    /\ polled' = getStatus(currentResults, heap)
    /\ lastEvent' = Event("getStatus", 0, 0, FALSE)
    /\ UNCHANGED <<servers, heap, currentResults, activeTests, runs, inFlight, requests,
                   restoring, calls, callLimit, deferredState, resolvedWith, notifications,
                   trace>>
    /\ UNCHANGED others

Next ==
    \/ \E c \in ConcurrencyArgs : StartTest(c)
    \/ ReceivedServerList
    \/ \E sampler \in inFlight, o \in Outcomes : SamplerSettled(sampler, o)
    \/ GetStatus

Spec == Init /\ [][Next]_vars

NextRestarted ==
    \/ \E c \in ConcurrencyArgs : StartTest(c)
    \/ ReceivedServerList
    \/ \E sampler \in inFlight, o \in Outcomes : SamplerSettled(sampler, o)

SpecRestarted == InitRestarted /\ [][NextRestarted]_vars

----------------------------------------------------------------------------
(* Properties of the scheduler *)

\* Results whose sampler is in flight
InFlightResults == {s.result : s \in inFlight}

\* Destination of a Result: the authority getDomain finds in its server URL
Destination(id) == getDomain(heap[id].server)

\* Destinations of the server list
DistinctDestinations == {getDomain(servers[i]) : i \in 1..Len(servers)}

\* Results still queued in some run
Queued == UNION {{runs[r].results[i] : i \in 1..Len(runs[r].results)} : r \in 1..Len(runs)}

\* C1: no two samplers in flight have server URLs with the same destination,
\* whatever the server list and the concurrency.
C1_OneProbePerDestination ==
    \A a \in InFlightResults, b \in InFlightResults :
        a # b => Destination(a) # Destination(b)

\* C1 witness: two samplers are in flight while a queued Result shares the
\* destination of one of them.
C1_Witness ==
    /\ Cardinality(InFlightResults) >= 2
    /\ \E q \in Queued, a \in InFlightResults : Destination(q) = Destination(a)

\* C2: in a run whose concurrency is N >= 1 the number of active destinations,
\* which is the number of samplers in flight, is at most N and at most the
\* number of distinct destinations of the server list.
C2_ActiveBounded ==
    \A r \in 1..Len(runs) :
        runs[r].concurrency >= 1 =>
            /\ Cardinality(activeTests) = Cardinality(inFlight)
            /\ Cardinality(activeTests) <= Min(runs[r].concurrency,
                                                Cardinality(DistinctDestinations))

\* C2 witness: the concurrency is what limits the run: two samplers in flight
\* with concurrency 2, three destinations, and a Result still queued.
C2_Witness ==
    /\ Len(runs) = 1
    /\ runs[1].concurrency = 2
    /\ Cardinality(activeTests) = 2
    /\ Cardinality(DistinctDestinations) = 3
    /\ runs[1].results # <<>>

\* The host of some server names a property inherited from Object.prototype
InheritedHost ==
    \E i \in 1..Len(servers) : PropertyKey(getDomain(servers[i])) \in ObjectPrototypeKeys

\* C3: with a non-empty server list and concurrency >= 1, once no sampler is
\* left to settle every Result has been started and is complete and the
\* results promise is resolved with the collection (no Result is starved).
C3_NoResultStarved ==
    (/\ Len(runs) = 1
     /\ runs[1].concurrency >= 1
     /\ Len(servers) >= 1
     /\ inFlight = {})
        => /\ Queued = {}
           /\ getRemaining(currentResults, heap) = 0
           /\ deferredState = "resolved"
           /\ resolvedWith = currentResults

\* C4: after every fill either as many samplers are in flight as the
\* concurrency, or no queued Result has a destination that is inactive; and
\* for A, B, C with concurrency 4, A and C are in flight right after start.
\* (Taken over runs with concurrency >= 1 and ordinary hosts only.)
C4_FillIsWorkConserving ==
    (/\ lastEvent.op \in {"receivedServerList", "settled"}
     /\ runs[lastEvent.run].concurrency >= 1
     /\ ~InheritedHost)
        => /\ \/ Cardinality(inFlight) = runs[lastEvent.run].concurrency
              \/ \A i \in 1..Len(runs[lastEvent.run].results) :
                    \E a \in InFlightResults :
                        Destination(a) = Destination(runs[lastEvent.run].results[i])
           /\ (/\ servers = <<UrlA, UrlB, UrlC>>
               /\ lastEvent.op = "receivedServerList"
               /\ runs[lastEvent.run].concurrency = DEFAULT_CONCURRENCY)
                  => InFlightResults = {1, 3}

\* C5, in the state a failed sampler's handlers leave: its Result is complete
\* with the terminal niceness and no statistics, its destination is held only
\* by a sampler started since, and the fill has been run again.
C5_AfterFailure ==
    (lastEvent.op = "settled" /\ lastEvent.rejected) =>
        LET id == lastEvent.result
            run == runs[lastEvent.run]
        IN /\ heap[id].complete
           /\ heap[id].niceness = Some(NICENESS_BINS)
           /\ IsNone(heap[id].roundTripStatistics)
           /\ id \notin InFlightResults
           /\ PropertyKey(Destination(id)) \in activeTests
                  => \E b \in InFlightResults : Destination(b) = Destination(id)
           /\ \/ run.results = <<>>
              \/ IsActive(activeTests, Destination(Head(run.results)))
              \/ Cardinality(activeTests) >= run.concurrency
           /\ deferredState \in {"pending", "resolved"}

\* C5, of the step in which a sampler fails: no other Result changes.
C5_FailureStep ==
    (lastEvent'.op = "settled" /\ lastEvent'.rejected) =>
        /\ Len(heap') = Len(heap)
        /\ \A j \in 1..Len(heap) : j # lastEvent'.result => heap'[j] = heap[j]

C6_Lifecycle ==
    /\ \A id \in 1..Len(heap) :
          /\ ~heap[id].complete =>
                 IsNone(heap[id].niceness) /\ IsNone(heap[id].roundTripStatistics)
          /\ heap[id].complete =>
                 id \notin InFlightResults /\ \E i \in 1..Len(trace) : trace[i] = id
    /\ \A i \in 1..Len(trace), j \in 1..Len(trace) : i # j => trace[i] # trace[j]
    /\ \A id \in InFlightResults : \E i \in 1..Len(trace) : trace[i] = id

\* C6, of every step: a complete Result never changes, a Result becomes
\* complete only in the step its sampler settles, and new Results are pending.
C6_Step ==
    /\ Len(heap') >= Len(heap)
    /\ \A id \in 1..Len(heap) :
          /\ heap[id].complete => heap'[id] = heap[id]
          /\ (~heap[id].complete /\ heap'[id].complete) =>
                 /\ id \in InFlightResults
                 /\ id \notin {s.result : s \in inFlight'}
                 /\ lastEvent'.op = "settled" /\ lastEvent'.result = id
    /\ \A id \in (Len(heap) + 1)..Len(heap') :
          heap'[id] = NewResult(heap'[id].name, heap'[id].server)

\* C6: each Result is created pending, started at most once, completed exactly
\* once when its sampler settles, and never changed afterwards.
C6_MutatedOnce == []C6_Lifecycle /\ [][C6_Step]_vars

\* C6 witness: a Result completed earlier, and a later sampler has settled since.
C6_Witness ==
    /\ lastEvent.op = "settled"
    /\ \E id \in 1..Len(heap) : id # lastEvent.result /\ heap[id].complete
    /\ inFlight # {}

\* C7: a startTest call made after an earlier one has no effect, whether or
\* not the server list has arrived: one Result collection is built and at
\* most one sampler is started per server.
C7_StartedOnce ==
    /\ Len(heap) <= Len(servers)
    /\ \A i \in 1..Len(trace), j \in 1..Len(trace) :
          i # j => heap[trace[i]].name # heap[trace[j]].name

\* C8: a run started with a concurrency <= 0 starts the samplers a run with
\* the default concurrency starts.
C8_NonPositiveIsDefault ==
    (/\ lastEvent.op = "receivedServerList"
     /\ Len(runs) = 1
     /\ ~IsNone(runs[1].argument)
     /\ Get(runs[1].argument) <= 0)
        => LET st == spawnTests(Get(currentResults), DEFAULT_CONCURRENCY, {}, heap)
           IN /\ InFlightResults = {st.started[i] : i \in 1..Len(st.started)}
              /\ runs[1].results = st.results

\* C9: the collection the results promise is resolved with lists the Results
\* in server enumeration order, whatever the order of completion.
C9_ResolvedInEnumerationOrder ==
    deferredState = "resolved" =>
        /\ ~IsNone(resolvedWith)
        /\ Len(Get(resolvedWith)) = Len(servers)
        /\ \A i \in 1..Len(servers) :
              /\ heap[Get(resolvedWith)[i]].name = i
              /\ heap[Get(resolvedWith)[i]].server = servers[i]

\* C9 witness: the promise is resolved and the Result enumerated first was
\* the last to complete.
C9_Witness ==
    /\ deferredState = "resolved"
    /\ Len(servers) >= 2
    /\ lastEvent.op = "settled"
    /\ lastEvent.result = Get(resolvedWith)[1]

\* The Status the claim describes, from the Result collection
StatusOf(cr, h) ==
    IF IsNone(cr) THEN Status(0, 0, FALSE, FALSE, FALSE)
    ELSE LET incomplete == {i \in 1..Len(Get(cr)) : ~h[Get(cr)[i]].complete}
         IN Status(Cardinality(incomplete), Len(Get(cr)), incomplete = {},
                   incomplete # {}, TRUE)

\* C10, in every state: getStatus() is the snapshot of the Result collection,
\* not started until the server list has arrived, and a poll returns it.
C10_Snapshot ==
    /\ getStatus(currentResults, heap) = StatusOf(currentResults, heap)
    /\ getStatus(currentResults, heap).started <=> runs # <<>>
    /\ lastEvent.op = "getStatus" => polled = StatusOf(currentResults, heap)

\* C10, of every step: calling getStatus() changes no scheduler state.
C10_PollStep == lastEvent'.op = "getStatus" => UNCHANGED scheduler

\* C10: getStatus() is consistent with the Result collection and is safe to poll.
C10_StatusConsistent == []C10_Snapshot /\ [][C10_PollStep]_vars

\* C10 witness: a poll during the run saw some Results complete and some not.
C10_Witness ==
    /\ lastEvent.op = "getStatus"
    /\ polled.running
    /\ polled.remaining >= 1
    /\ polled.remaining < polled.total

----------------------------------------------------------------------------
(* statisticalMeasurementService.js: the sampler.  Times are integer        *)
(* milliseconds, as Date.getTime() returns them.                            *)

MAX_SAMPLING_TIME == 3000
DESIRED_SAMPLE_SIZE == 5
\* 0.25, as a fraction
DESIRED_DEVIATION == [num |-> 1, den |-> 4]
MINIMUM_DEVIATION == 4

\* Most pings one measurement makes
MaxPings == 6

\* isAccurate that does not ask for DESIRED_SAMPLE_SIZE samples
isAccurateAnySize(stats) ==
    stats.meanAbsoluteDeviation.num * DESIRED_DEVIATION.den
        <= stats.meanAbsoluteDeviation.den * Abs(stats.median) * DESIRED_DEVIATION.num

\* isAccurate without the absolute floor MINIMUM_DEVIATION
isAccurateProportional(stats) ==
    /\ Len(stats.samples) >= DESIRED_SAMPLE_SIZE
    /\ stats.meanAbsoluteDeviation.num * DESIRED_DEVIATION.den
           <= stats.meanAbsoluteDeviation.den * Abs(stats.median) * DESIRED_DEVIATION.num

\* isAccurate(stats): enough samples, and meanAbsoluteDeviation within
\* Math.max(MINIMUM_DEVIATION, Math.abs(stats.median * DESIRED_DEVIATION)).
\* Both sides are in quarter milliseconds, multiplied by the denominators.
isAccurate(stats) ==
    LET floor == 4 * MINIMUM_DEVIATION * DESIRED_DEVIATION.den
        proportional == Abs(stats.median) * DESIRED_DEVIATION.num
        desiredDeviation == IF floor >= proportional THEN floor ELSE proportional
    IN /\ Len(stats.samples) >= DESIRED_SAMPLE_SIZE
       /\ stats.meanAbsoluteDeviation.num * DESIRED_DEVIATION.den
              <= stats.meanAbsoluteDeviation.den * desiredDeviation

\* Round trip times of a server whose latency varies, in milliseconds
RoundTripTimes == {2, 10, 50, 1600}

\* Round trip times of a server that answers in 50 ms +- 2 ms
SteadyRoundTripTimes == 48..52

\* Time between one ping's response handler and the next ping's timestamp
Delays == {0, 1}

\* service.getRoundTripStatistics(serverUrl): gatherSamples(serverUrl, [],
\* $q.defer(), now) makes the first ping
GetRoundTripStatistics ==
    /\ measurement.request = "none"
    /\ measurement' = [measurement EXCEPT !.request = "pending", !.pings = 1,
                                          !.pinging = 1]
    /\ UNCHANGED <<tester, classifier, cachedJSON, permalink, computed, probe, recommendation>>

\* timestampsReceived without the else: it gathers more samples after it
\* has resolved as well
TimestampsReceivedAndGatherMore(rtt, delay) ==
    /\ measurement.pinging = 1
    /\ measurement.pings < MaxPings
    /\ LET samples == Append(measurement.samples, rtt)
           elapsed == measurement.elapsed + delay + rtt
           stats == Statistics(samples)
           stop == elapsed >= MAX_SAMPLING_TIME \/ isAccurate(stats)
       IN measurement' =
              [measurement EXCEPT !.samples = samples, !.elapsed = elapsed,
                                  !.request = IF stop \/ @ = "resolved" THEN "resolved" ELSE @,
                                  !.stats = IF stop /\ IsNone(@) THEN Some(stats) ELSE @,
                                  !.pings = @ + 1]
    /\ UNCHANGED <<tester, classifier, cachedJSON, permalink, computed, probe, recommendation>>

\* timestampsReceived: a ping made delay ms after the previous handler is
\* answered after rtt ms
TimestampsReceived(rtt, delay) ==
    /\ measurement.request = "pending"
    /\ measurement.pinging = 1
    /\ LET samples == Append(measurement.samples, rtt)
           elapsed == measurement.elapsed + delay + rtt
           stats == Statistics(samples)
           stop == elapsed >= MAX_SAMPLING_TIME \/ isAccurate(stats)
       IN /\ stop \/ measurement.pings < MaxPings
          /\ measurement' =
                IF stop
                THEN [measurement EXCEPT !.samples = samples, !.elapsed = elapsed,
                                         !.request = "resolved", !.stats = Some(stats),
                                         !.pinging = 0]
                ELSE [measurement EXCEPT !.samples = samples, !.elapsed = elapsed,
                                         !.pings = @ + 1]
    /\ UNCHANGED <<tester, classifier, cachedJSON, permalink, computed, probe, recommendation>>

\* testFailed that pings the server again
testFailedRetried(m) == [m EXCEPT !.pings = @ + 1]

\* testFailed that resolves with the Statistics of the samples gathered so far
testFailedResolved(m) ==
    [m EXCEPT !.request = "resolved", !.stats = Some(Statistics(m.samples)), !.pinging = 0]

\* testFailed: request.reject()
testFailed(m) == [m EXCEPT !.request = "rejected", !.pinging = 0]

\* The ping's promise is rejected
TestFailed ==
    /\ measurement.request = "pending"
    /\ measurement.pinging = 1
    /\ measurement' = testFailed(measurement)
    /\ UNCHANGED <<tester, classifier, cachedJSON, permalink, computed, probe, recommendation>>

SamplerConstructed ==
    /\ servers = <<>>
    /\ callLimit = 0
    /\ Constructed

InitSampler ==
    /\ SamplerConstructed
    /\ measurement = Idle(RoundTripTimes)
    /\ classifier = Unclassified
    /\ cachedJSON = Unread
    /\ Untouched

NextSampler ==
    \/ GetRoundTripStatistics
    \/ \E rtt \in measurement.network, delay \in Delays : TimestampsReceived(rtt, delay)
    \/ TestFailed

SpecSampler == InitSampler /\ [][NextSampler]_vars

InitSteady ==
    /\ SamplerConstructed
    /\ measurement = Idle(SteadyRoundTripTimes)
    /\ classifier = Unclassified
    /\ cachedJSON = Unread
    /\ Untouched

SpecSteady == InitSteady /\ [][NextSampler]_vars

----------------------------------------------------------------------------
(* Properties of the sampler *)

\* "Accurate" as the specification words it, over a sample array: at least
\* 5 samples, and meanAbsoluteDeviation <= max(4, 0.25 * |median|)
\* (in quarter milliseconds: 4 * num / den <= max(64, |median|))
StatedAccurate(samples) ==
    LET stats == Statistics(samples)
        bound == IF 64 >= Abs(stats.median) THEN 64 ELSE Abs(stats.median)
    IN /\ Len(samples) >= 5
       /\ 4 * stats.meanAbsoluteDeviation.num <= stats.meanAbsoluteDeviation.den * bound

\* C11: after each successful probe the sampler resolves, with the Statistics
\* of all samples so far, if and only if the elapsed time has reached the
\* maximum sampling time (3000 ms) or the set is accurate; otherwise it issues
\* exactly one further probe.
C11_Step ==
    Len(measurement'.samples) = Len(measurement.samples) + 1 =>
        LET stop == \/ measurement'.elapsed >= 3000
                    \/ StatedAccurate(measurement'.samples)
        IN /\ (measurement'.request = "resolved") <=> stop
           /\ stop => /\ measurement'.stats = Some(Statistics(measurement'.samples))
                      /\ measurement'.pings = measurement.pings
                      /\ measurement'.pinging = 0
           /\ ~stop => /\ measurement'.request = "pending"
                       /\ measurement'.stats = None
                       /\ measurement'.pings = measurement.pings + 1
                       /\ measurement'.pinging = 1

C11_ResolvesWhenDone == [][C11_Step]_vars

\* a measurement resolved before the time limit, by a deviation that is
\* within the absolute floor only
C11_Witness ==
    /\ measurement.request = "resolved"
    /\ StatedAccurate(measurement.samples)
    /\ measurement.elapsed < 3000
    /\ Abs(measurement.stats[1].median) < 64
    /\ measurement.stats[1].meanAbsoluteDeviation.num > 0

\* C12: a failed probe rejects the measurement and no further probe is
\* issued, however many probes succeeded before; a measurement whose first
\* probe fails has made exactly one probe.
C12_Step ==
    /\ (measurement.request = "pending" /\ Len(measurement'.samples) = Len(measurement.samples)) =>
           /\ measurement'.request = "rejected"
           /\ measurement'.pings = measurement.pings
           /\ measurement'.pinging = 0
    /\ measurement.request = "rejected" => measurement' = measurement

C12_Rejected ==
    /\ measurement.request = "rejected" =>
           /\ measurement.pinging = 0
           /\ measurement.stats = None
           /\ measurement.pings = Len(measurement.samples) + 1

C12_FailureIsFatal == []C12_Rejected /\ [][C12_Step]_vars

\* rejected after probes that succeeded
C12_Witness ==
    /\ measurement.request = "rejected"
    /\ Len(measurement.samples) >= 2

\* C13: when every probe succeeds with a round trip time of 48..52 ms, the
\* sampler resolves because the set is accurate, with at least 5 samples, and
\* before the elapsed time reaches the maximum sampling time.
C13_SteadyServerIsAccurate ==
    /\ \A i \in 1..Len(measurement.samples) : measurement.samples[i] \in 48..52
    /\ Len(measurement.samples) >= 5 => measurement.request = "resolved"
    /\ measurement.request = "resolved" =>
           /\ Len(measurement.samples) >= 5
           /\ StatedAccurate(measurement.samples)
           /\ measurement.elapsed < 3000

C13_Witness ==
    /\ measurement.request = "resolved"
    /\ \E i \in 1..Len(measurement.samples) : measurement.samples[i] = 48
    /\ \E i \in 1..Len(measurement.samples) : measurement.samples[i] = 52

----------------------------------------------------------------------------
(* Thresholds (types/Server.js).  Property names are strings the code       *)
(* parses, so they are sequences of characters.  A template is the sequence *)
(* of its properties in enumeration order.                                  *)

\* Value of a decimal digit
DigitValue ==
    ("0" :> 0) @@ ("1" :> 1) @@ ("2" :> 2) @@ ("3" :> 3) @@ ("4" :> 4) @@
    ("5" :> 5) @@ ("6" :> 6) @@ ("7" :> 7) @@ ("8" :> 8) @@ ("9" :> 9)

\* The longest prefix of decimal digits
RECURSIVE LeadingDigits(_)
LeadingDigits(s) ==
    IF s = <<>> \/ Head(s) \notin DOMAIN DigitValue THEN <<>>
    ELSE <<Head(s)>> \o LeadingDigits(Tail(s))

RECURSIVE DecimalValue(_)
DecimalValue(digits) ==
    IF digits = <<>> THEN 0
    ELSE 10 * DecimalValue(SubSeq(digits, 1, Len(digits) - 1))
         + DigitValue[digits[Len(digits)]]

RECURSIVE TrimLeft(_)
TrimLeft(s) == IF s # <<>> /\ Head(s) = " " THEN TrimLeft(Tail(s)) ELSE s

\* parseInt(string), radix 10: leading white space, an optional sign, then
\* the longest run of digits; NaN (None) when there is no digit.  Names with
\* a "0x" prefix are not among the inputs.
parseInt(string) ==
    LET trimmed == TrimLeft(string)
        signed == trimmed # <<>> /\ Head(trimmed) \in {"+", "-"}
        negative == signed /\ Head(trimmed) = "-"
        digits == LeadingDigits(IF signed THEN Tail(trimmed) ELSE trimmed)
    IN IF digits = <<>> THEN None
       ELSE Some(IF negative THEN 0 - DecimalValue(digits) ELSE DecimalValue(digits))

\* Latencies: a number of milliseconds, or Number.POSITIVE_INFINITY
Finite(n) == [infinite |-> FALSE, value |-> n]
POSITIVE_INFINITY == [infinite |-> TRUE, value |-> 0]

\* new Threshold(template)
Threshold(min, color) == [min |-> min, color |-> color]

\* compareThresholds(a, b) <= 0
compareThresholds(a, b) ==
    IF a.min.infinite THEN b.min.infinite
    ELSE b.min.infinite \/ a.min.value <= b.min.value

\* thresholds.sort(compareThresholds), on the short arrays of a template
RECURSIVE InsertThreshold(_, _)
InsertThreshold(x, sorted) ==
    IF sorted = <<>> THEN <<x>>
    ELSE IF compareThresholds(sorted[Len(sorted)], x) THEN Append(sorted, x)
    ELSE Append(InsertThreshold(x, SubSeq(sorted, 1, Len(sorted) - 1)), sorted[Len(sorted)])

RECURSIVE SortThresholds(_)
SortThresholds(list) ==
    IF list = <<>> THEN <<>>
    ELSE InsertThreshold(list[Len(list)], SortThresholds(SubSeq(list, 1, Len(list) - 1)))

\* template[name]: undefined (None) when the template has no such property
Property(template, name) ==
    LET found == {i \in 1..Len(template) : template[i].name = name}
    IN IF found = {} THEN None ELSE Some(template[CHOOSE i \in found : TRUE].color)

\* a || b for colors
OrElse(a, b) == IF IsNone(a) \/ a = Some("") THEN b ELSE Get(a)

\* addColor, for every property of the template
RECURSIVE AddColors(_)
AddColors(template) ==
    IF template = <<>> THEN <<>>
    ELSE LET threshold == parseInt(Head(template).name)
         IN IF IsNone(threshold) \/ Get(threshold) < 0 THEN AddColors(Tail(template))
            ELSE <<Threshold(Finite(Get(threshold)), Head(template).color)>>
                 \o AddColors(Tail(template))

Name0 == <<"0">>
Name60 == <<"6", "0">>
Name130 == <<"1", "3", "0">>
Name220 == <<"2", "2", "0">>
NameUnreachable == <<"u", "n", "r", "e", "a", "c", "h", "a", "b", "l", "e">>
NameNegative == <<"-", "5">>
NameSuffixed == <<"9", "0", "m", "s">>

\* The template of Thresholds.DEFAULT_THRESHOLDS
DefaultTemplate ==
    << [name |-> Name0, color |-> "rgba(64,  192, 0, 0.5)"],
       [name |-> Name60, color |-> "rgba(192, 192, 0, 0.5)"],
       [name |-> Name130, color |-> "rgba(192, 128, 0, 0.5)"],
       [name |-> Name220, color |-> "rgba(192, 0,   0, 0.5)"],
       [name |-> NameUnreachable, color |-> "black"] >>

\* new Thresholds(template): the object's '0' and unreachable properties and
\* its private thresholds array
Thresholds(template) ==
    LET unreachable == OrElse(Property(template, NameUnreachable), "black")
    IN [zero |-> OrElse(Property(template, Name0), DefaultTemplate[1].color),
        unreachable |-> unreachable,
        thresholds |-> SortThresholds(
            Append(AddColors(template), Threshold(POSITIVE_INFINITY, unreachable)))]

DEFAULT_THRESHOLDS == Thresholds(DefaultTemplate)

\* predicted >= min, with predicted in quarter milliseconds
AtLeast(predicted, min) == ~min.infinite /\ predicted >= 4 * min.value

\* for (i = thresholds.length - 1; i > 0; i--) if (predicted >= thresholds[i].min) return i;
\* return 0;  (array index i is sequence index i + 1)
RECURSIVE Scan(_, _, _)
Scan(thresholds, predicted, i) ==
    IF i <= 0 THEN 0
    ELSE IF AtLeast(predicted, thresholds[i + 1].min) THEN i
    ELSE Scan(thresholds, predicted, i - 1)

\* getNiceness that compares the median alone
getNicenessOfMedian(thresholds, stats) ==
    IF IsNone(stats) THEN Len(thresholds) - 1
    ELSE Scan(thresholds, Get(stats).median, Len(thresholds) - 1)

\* getNiceness that stops short of the slowest reachable threshold
getNicenessShort(thresholds, stats) ==
    IF IsNone(stats) THEN Len(thresholds) - 1
    ELSE Scan(thresholds, Get(stats).median + Get(stats).medianAbsoluteDeviation,
              Len(thresholds) - 3)

\* getNiceness that gives unreachable servers the slowest reachable value
getNicenessReachable(thresholds, stats) ==
    IF IsNone(stats) THEN Len(thresholds) - 2
    ELSE Scan(thresholds, Get(stats).median + Get(stats).medianAbsoluteDeviation,
              Len(thresholds) - 1)

\* thresholds.getNiceness(stats)
getNiceness(thresholds, stats) ==
    IF IsNone(stats) THEN Len(thresholds) - 1
    ELSE Scan(thresholds, Get(stats).median + Get(stats).medianAbsoluteDeviation,
              Len(thresholds) - 1)

Max(a, b) == IF a >= b THEN a ELSE b

\* getColor that counts a negative niceness from the end of the array
getColorFromEnd(thresholds, niceness) ==
    LET index == Min(niceness, Len(thresholds) - 1)
    IN IF index < 0 THEN thresholds[Max(1, Len(thresholds) + index + 1)].color
       ELSE thresholds[index + 1].color

\* thresholds.getColor(niceness), for integer niceness (array index i is
\* sequence index i + 1).  The array always holds the unreachable entry, so
\* the clamped index has an element.
getColor(thresholds, niceness) ==
    thresholds[Max(0, Min(niceness, Len(thresholds) - 1)) + 1].color

\* Property names a thresholds file may hold besides the default ones
Pool ==
    DefaultTemplate \o
    << [name |-> NameNegative, color |-> "blue"],
       [name |-> NameSuffixed, color |-> "grey"] >>

\* The properties of pool whose positions are in chosen, in pool order
RECURSIVE Pick(_, _)
Pick(pool, chosen) ==
    IF pool = <<>> THEN <<>>
    ELSE LET rest == Pick(SubSeq(pool, 1, Len(pool) - 1), chosen)
         IN IF Len(pool) \in chosen THEN Append(rest, pool[Len(pool)]) ELSE rest

\* Templates api/ext/conntest/thresholds may answer with, {} included
Templates == {Pick(Pool, chosen) : chosen \in SUBSET (1..Len(Pool))}

\* Sample arrays whose median + medianAbsoluteDeviation is 0, 58, 59, 59.5,
\* 60 (twice), 129.5, 130, 219, 220 and 5000 ms
ClassifiedSamples ==
    { <<0>>, <<58>>, <<59>>, <<58, 59, 59, 60>>, <<60>>, <<57, 59, 59, 61>>,
      <<128, 129, 129, 130>>, <<130>>, <<219>>, <<220>>, <<5000>> }

\* What a sampler settles with: rejected, or resolved with Statistics
ClassifiedOutcomes == {None} \cup {Some(Statistics(s)) : s \in ClassifiedSamples}

\* thresholdRetrievalSucceeded: new Thresholds(response.data)
ThresholdRetrievalSucceeded(template) ==
    /\ IsNone(classifier.thresholds)
    /\ classifier' = [classifier EXCEPT !.thresholds = Some(Thresholds(template)),
                                        !.template = template]
    /\ UNCHANGED <<tester, measurement, cachedJSON, permalink, computed, probe, recommendation>>

\* thresholdRetrievalFailed: Thresholds.DEFAULT_THRESHOLDS
ThresholdRetrievalFailed ==
    /\ IsNone(classifier.thresholds)
    /\ classifier' = [classifier EXCEPT !.thresholds = Some(DEFAULT_THRESHOLDS),
                                        !.template = DefaultTemplate]
    /\ UNCHANGED <<tester, measurement, cachedJSON, permalink, computed, probe, recommendation>>

\* thresholds.getNiceness(stats) is called
GetNiceness(stats) ==
    /\ ~IsNone(classifier.thresholds)
    /\ classifier' = [classifier EXCEPT !.asked =
            Some([stats |-> stats,
                  niceness |-> getNiceness(Get(classifier.thresholds).thresholds, stats)])]
    /\ UNCHANGED <<tester, measurement, cachedJSON, permalink, computed, probe, recommendation>>

\* Niceness values getColor is called with: those getNiceness returns, and
\* integers below and above them
NicenessArgs == -2..6

\* thresholds.getColor(niceness) is called
GetColor(niceness) ==
    /\ ~IsNone(classifier.thresholds)
    /\ classifier' = [classifier EXCEPT !.colored =
            Some([niceness |-> niceness,
                  color |-> getColor(Get(classifier.thresholds).thresholds, niceness)])]
    /\ UNCHANGED <<tester, measurement, cachedJSON, permalink, computed, probe, recommendation>>

\* The handlers of testServers run for a Result whose sampler settled
RoundTripTimeMeasured(outcome) ==
    /\ classifier' = [classifier EXCEPT !.settled =
            Some([outcome |-> outcome,
                  result |-> SettledResult(NewResult(1, UrlA), outcome)])]
    /\ UNCHANGED <<tester, measurement, cachedJSON, permalink, computed, probe, recommendation>>

InitThresholds ==
    /\ SamplerConstructed
    /\ measurement = Idle({})
    /\ classifier = Unclassified
    /\ cachedJSON = Unread
    /\ Untouched

NextThresholds ==
    \/ \E template \in Templates : ThresholdRetrievalSucceeded(template)
    \/ ThresholdRetrievalFailed
    \/ \E stats \in ClassifiedOutcomes : GetNiceness(stats)
    \/ \E niceness \in NicenessArgs : GetColor(niceness)
    \/ \E outcome \in ClassifiedOutcomes : RoundTripTimeMeasured(outcome)

SpecThresholds == InitThresholds /\ [][NextThresholds]_vars

----------------------------------------------------------------------------
(* Properties of Thresholds *)

\* median + medianAbsoluteDeviation of a Statistics object, in quarter milliseconds
Predicted(stats) == stats.median + stats.medianAbsoluteDeviation

\* The thresholds array of the retrieved Thresholds object
Retrieved == Get(classifier.thresholds).thresholds

\* C14: with count entries in the list (the terminal one included),
\* getNiceness(absent) = count - 1, and getNiceness(stats) is the largest
\* index i < count - 1 whose min <= median + medianAbsoluteDeviation, or 0 if
\* there is none.
C14_NicenessIsLastMatch ==
    ~IsNone(classifier.asked) =>
        LET count == Len(Retrieved)
            asked == Get(classifier.asked)
            matching == {i \in 0..(count - 2) :
                            /\ ~Retrieved[i + 1].min.infinite
                            /\ 4 * Retrieved[i + 1].min.value <= Predicted(Get(asked.stats))}
        IN IF IsNone(asked.stats) THEN asked.niceness = count - 1
           ELSE IF matching = {} THEN asked.niceness = 0
           ELSE /\ asked.niceness \in matching
                /\ \A i \in matching : i <= asked.niceness

\* a custom list classifies a server between its fastest and slowest band
C14_Witness ==
    /\ ~IsNone(classifier.asked)
    /\ classifier.template # DefaultTemplate
    /\ Len(Retrieved) >= 4
    /\ ~IsNone(Get(classifier.asked).stats)
    /\ Get(classifier.asked).niceness = Len(Retrieved) - 2
    /\ \E i \in 1..Len(classifier.template) : classifier.template[i].name = NameSuffixed

\* C15: with the default thresholds, an effective latency below 60 ms gets
\* niceness 0, 60 to below 130 ms gets 1, 130 to below 220 ms gets 2, 220 ms
\* and more gets 3, and no statistics gets 4.
C15_DefaultBands ==
    (~IsNone(classifier.asked) /\ classifier.template = DefaultTemplate) =>
        LET asked == Get(classifier.asked)
        IN asked.niceness =
            IF IsNone(asked.stats) THEN 4
            ELSE IF Predicted(Get(asked.stats)) < 4 * 60 THEN 0
            ELSE IF Predicted(Get(asked.stats)) < 4 * 130 THEN 1
            ELSE IF Predicted(Get(asked.stats)) < 4 * 220 THEN 2
            ELSE 3

\* 129.5 ms is classified by the default thresholds
C15_Witness ==
    /\ ~IsNone(classifier.asked)
    /\ classifier.template = DefaultTemplate
    /\ ~IsNone(Get(classifier.asked).stats)
    /\ Predicted(Get(Get(classifier.asked).stats)) = 518
    /\ Get(classifier.asked).niceness = 1

\* C16: the niceness the scheduler assigns to a Result when its sampler
\* settles is the niceness the default Thresholds give the same outcome.
C16_SchedulerUsesThresholds ==
    ~IsNone(classifier.settled) =>
        LET settled == Get(classifier.settled)
        IN settled.result.niceness =
               Some(getNiceness(DEFAULT_THRESHOLDS.thresholds, settled.outcome))

\* C17: for one Thresholds object, getNiceness does not decrease when
\* median + medianAbsoluteDeviation increases.
C17_Monotonic ==
    (~IsNone(classifier.asked) /\ ~IsNone(Get(classifier.asked).stats)) =>
        LET asked == Get(classifier.asked)
        IN \A other \in ClassifiedOutcomes \ {None} :
            /\ Predicted(Get(other)) <= Predicted(Get(asked.stats))
                   => getNiceness(Retrieved, other) <= asked.niceness
            /\ Predicted(Get(other)) >= Predicted(Get(asked.stats))
                   => getNiceness(Retrieved, other) >= asked.niceness

\* a custom list puts the server asked about between a faster and a slower one
C17_Witness ==
    /\ ~IsNone(classifier.asked)
    /\ ~IsNone(Get(classifier.asked).stats)
    /\ classifier.template # DefaultTemplate
    /\ \E faster, slower \in ClassifiedOutcomes \ {None} :
          /\ getNiceness(Retrieved, faster) < Get(classifier.asked).niceness
          /\ getNiceness(Retrieved, slower) > Get(classifier.asked).niceness

\* C18: whatever the template, the list new Thresholds(template) builds is
\* sorted ascending by min, has an entry with min = 0, and ends with the
\* terminal entry whose min is +infinity.
C18_ListIsWellFormed ==
    ~IsNone(classifier.thresholds) =>
        /\ \A i \in 1..(Len(Retrieved) - 1) :
               compareThresholds(Retrieved[i], Retrieved[i + 1])
        /\ \E i \in 1..Len(Retrieved) :
               ~Retrieved[i].min.infinite /\ Retrieved[i].min.value = 0
        /\ Retrieved[Len(Retrieved)].min.infinite

\* C26: getColor(n) is the color of the threshold at index n clamped to
\* 0 .. count - 1, for integers n below 0, within the list and beyond it; and
\* the color of the niceness getNiceness gives absent statistics is the
\* template's 'unreachable' color ('black' when the template has none).
C26_ColorIsClamped ==
    ~IsNone(classifier.colored) =>
        LET list == Get(classifier.thresholds).thresholds
            n == Get(classifier.colored).niceness
            count == Len(list)
            clamped == IF n < 0 THEN 0 ELSE IF n >= count THEN count - 1 ELSE n
        IN /\ count >= 1
           /\ Get(classifier.colored).color = list[clamped + 1].color
           /\ (~IsNone(classifier.asked) /\ IsNone(Get(classifier.asked).stats)
                   /\ n = Get(classifier.asked).niceness) =>
                  Get(classifier.colored).color
                      = OrElse(Property(classifier.template, NameUnreachable), "black")

\* getColor was called with a niceness below 0 on thresholds with three
\* entries, after getNiceness had been called without statistics
C26_Witness ==
    /\ ~IsNone(classifier.colored)
    /\ Get(classifier.colored).niceness = -2
    /\ Len(Get(classifier.thresholds).thresholds) = 3
    /\ ~IsNone(classifier.asked)
    /\ IsNone(Get(classifier.asked).stats)

----------------------------------------------------------------------------
(* CachedJSON.java and its subclasses ServerList and Thresholds             *)
(* (conf/ServerList.java).  A parsed map is the set of its keys; keys are   *)
(* sequences of characters.                                                 *)

\* Most modifications of the JSON file
MaxModifications == 2

\* Java references: null, or a Map
JavaNull == [null |-> TRUE, keys |-> {}]
JavaMap(keys) == [null |-> FALSE, keys |-> keys]

\* Ints.tryParse(string) == null: anything but an optional '-' followed by
\* decimal digits alone.  Keys of ten or more digits are not among the inputs.
TryParseIsNull(string) ==
    LET body == IF string # <<>> /\ Head(string) = "-" THEN Tail(string) ELSE string
    IN body = <<>> \/ LeadingDigits(body) # body

\* The keys of the Java DEFAULT_THRESHOLDS
JavaDefaultThresholds == JavaMap({Name0, Name60, Name130, Name220, NameUnreachable})

\* The initial value each subclass gives the CachedJSON constructor
Initial(subclass) ==
    IF subclass = "Thresholds" THEN JavaDefaultThresholds ELSE JavaMap({})

\* Thresholds.update(oldValue, newValue), for newValue a Map
ThresholdsUpdate(oldValue, newValue) ==
    IF NameUnreachable \notin newValue.keys THEN oldValue
    ELSE IF Name0 \notin newValue.keys THEN oldValue
    ELSE IF \E threshold \in newValue.keys :
                threshold # NameUnreachable /\ TryParseIsNull(threshold)
         THEN oldValue
    ELSE newValue

\* Whether update(oldValue, newValue) throws: Thresholds.update calls
\* newValue.containsKey, CachedJSON.update touches nothing
UpdateThrows(subclass, newValue) == subclass = "Thresholds" /\ newValue.null

\* update(oldValue, newValue) of the subclass, when it returns
Update(subclass, oldValue, newValue) ==
    IF subclass = "Thresholds" THEN ThresholdsUpdate(oldValue, newValue) ELSE newValue

\* What the file may hold: text that is no JSON (readValue throws an
\* IOException), the JSON text null, or a JSON object with some of these keys
FileKeys == {Name0, Name60, NameUnreachable, NameNegative, NameSuffixed}
Unparseable == [parses |-> FALSE, value |-> JavaNull]
Parseable(value) == [parses |-> TRUE, value |-> value]
Contents ==
    {Unparseable, Parseable(JavaNull)} \cup {Parseable(JavaMap(keys)) : keys \in SUBSET FileKeys}

\* Modification times a new version may get over the previous one: the same
\* (within the granularity of the file system clock) or a later one
Ticks == {0, 1}

\* A catch clause that lets the IOException through
CaughtNothing(parses) == FALSE

\* catch (IOException e): readValue failed and the exception is handled
Caught(parses) == ~parses

\* The CachedJSON object after its constructor, and the file not yet there
\* (File.lastModified() is 0 for a file that does not exist)
NewCachedJSON(subclass) ==
    [subclass |-> subclass,
     file |-> [lastModified |-> 0, content |-> Unparseable],
     modifications |-> 0,
     lastModified |-> 0,
     cachedValue |-> Initial(subclass),
     reading |-> FALSE,
     returned |-> None,
     thrown |-> FALSE,
     lastRead |-> None]

\* The administrator (or a deployment tool) writes the file
Modify(content, tick) ==
    /\ cachedJSON.modifications < MaxModifications
    /\ tick = 1 \/ cachedJSON.file.lastModified > 0
    /\ cachedJSON' = [cachedJSON EXCEPT
            !.file = [lastModified |-> @.lastModified + tick, content |-> content],
            !.modifications = @ + 1]
    /\ UNCHANGED <<tester, measurement, classifier, permalink, computed, probe, recommendation>>

\* getValue(), up to the assignment of cachedValue; it returns here unless
\* the file was parsed and update returned
GetValue ==
    /\ ~cachedJSON.reading
    /\ LET content == cachedJSON.file.content
           stale == cachedJSON.file.lastModified > cachedJSON.lastModified
           read == [old |-> cachedJSON.cachedValue, content |-> content]
       IN cachedJSON' =
            IF ~stale
            THEN [cachedJSON EXCEPT !.returned = Some(cachedJSON.cachedValue),
                                    !.thrown = FALSE, !.lastRead = None]
            ELSE IF ~content.parses
            THEN [cachedJSON EXCEPT
                      !.returned = IF Caught(content.parses)
                                   THEN Some(cachedJSON.cachedValue) ELSE None,
                      !.thrown = ~Caught(content.parses),
                      !.lastRead = Some(read)]
            ELSE IF UpdateThrows(cachedJSON.subclass, content.value)
            THEN [cachedJSON EXCEPT !.returned = None, !.thrown = TRUE,
                                    !.lastRead = Some(read)]
            ELSE [cachedJSON EXCEPT
                      !.cachedValue = Update(cachedJSON.subclass, @, content.value),
                      !.reading = TRUE, !.returned = None, !.thrown = FALSE,
                      !.lastRead = Some(read)]
    /\ UNCHANGED <<tester, measurement, classifier, permalink, computed, probe, recommendation>>

\* getValue(), from lastModified = json.lastModified() to its return
GetValueReturn ==
    /\ cachedJSON.reading
    /\ cachedJSON' = [cachedJSON EXCEPT !.lastModified = cachedJSON.file.lastModified,
                                        !.reading = FALSE,
                                        !.returned = Some(cachedJSON.cachedValue)]
    /\ UNCHANGED <<tester, measurement, classifier, permalink, computed, probe, recommendation>>

InitCachedJSON ==
    /\ SamplerConstructed
    /\ measurement = Idle({})
    /\ classifier = Unclassified
    /\ cachedJSON \in {NewCachedJSON("ServerList"), NewCachedJSON("Thresholds")}
    /\ Untouched

NextCachedJSON ==
    \/ \E content \in Contents, tick \in Ticks : Modify(content, tick)
    \/ GetValue
    \/ GetValueReturn

SpecCachedJSON == InitCachedJSON /\ [][NextCachedJSON]_vars

----------------------------------------------------------------------------
(* Properties of the cached configuration *)

\* A key that is a non-negative decimal integer, as the specification asks
StatedNonNegativeInteger(key) == key # <<>> /\ LeadingDigits(key) = key

\* A map the specification's validation accepts
StatedValid(keys) ==
    /\ Name0 \in keys
    /\ NameUnreachable \in keys
    /\ \A key \in keys \ {Name0, NameUnreachable} : StatedNonNegativeInteger(key)

\* C19: Thresholds.update accepts a newly parsed map if and only if it has the
\* '0' key and the 'unreachable' key and every other key is a non-negative
\* integer; otherwise the previously accepted map stays and nothing is thrown.
C19_ValidationAsStated ==
    ( /\ cachedJSON.subclass = "Thresholds"
      /\ ~IsNone(cachedJSON.lastRead)
      /\ Get(cachedJSON.lastRead).content.parses
      /\ ~Get(cachedJSON.lastRead).content.value.null ) =>
        LET read == Get(cachedJSON.lastRead)
        IN /\ ~cachedJSON.thrown
           /\ cachedJSON.cachedValue =
                  IF StatedValid(read.content.value.keys) THEN read.content.value
                  ELSE read.old

\* C20: getValue() returns the initial value or a value parsed from a version
\* of the file and returned by update(); a parse that fails leaves the cached
\* value as it was and getValue() returns it without throwing.
C20_FailedParse ==
    (~IsNone(cachedJSON.lastRead) /\ ~Get(cachedJSON.lastRead).content.parses) =>
        /\ cachedJSON.cachedValue = Get(cachedJSON.lastRead).old
        /\ ~cachedJSON.thrown
        /\ cachedJSON.returned = Some(cachedJSON.cachedValue)

C20_Step ==
    /\ cachedJSON'.cachedValue # cachedJSON.cachedValue =>
           /\ cachedJSON.file.content.parses
           /\ cachedJSON'.cachedValue = cachedJSON.file.content.value
    /\ cachedJSON'.returned # cachedJSON.returned =>
           \/ cachedJSON'.returned = None
           \/ cachedJSON'.returned = Some(cachedJSON'.cachedValue)

C20_Returned ==
    ~IsNone(cachedJSON.returned) => Get(cachedJSON.returned) = cachedJSON.cachedValue

----------------------------------------------------------------------------
(* Result.pack and Result.unpack (src/unnamed/part_004, third revision, and *)
(* types/Result.js).  An object used as a map is the sequence of its own    *)
(* properties in enumeration order.  JSON text is a sequence of tokens; the *)
(* deflate and base64 layers carry the text unchanged and reject input that *)
(* they did not produce.                                                    *)

\* Most Results in a packed set, and most servers in the live server map
MaxPacked == 2
MaxLive == 2

\* object[key] = value
RECURSIVE Put(_, _, _)
Put(object, key, value) ==
    IF object = <<>> THEN <<[key |-> key, value |-> value]>>
    ELSE IF Head(object).key = key THEN <<[key |-> key, value |-> value]>> \o Tail(object)
    ELSE <<Head(object)>> \o Put(Tail(object), key, value)

\* object[key]: undefined (None) when the object has no such property.  The
\* keys are URLs, none of which is a property name of Object.prototype.
Lookup(object, key) ==
    LET found == {i \in 1..Len(object) : object[i].key = key}
    IN IF found = {} THEN None ELSE Some(object[CHOOSE i \in found : TRUE].value)

\* Tokens of JSON text
Punct(c) == [kind |-> "punct", text |-> <<c>>, number |-> 0]
String(s) == [kind |-> "string", text |-> s, number |-> 0]
Number(n) == [kind |-> "number", text |-> <<>>, number |-> n]

RECURSIVE Elements(_)
Elements(array) ==
    IF array = <<>> THEN <<>>
    ELSE IF Len(array) = 1 THEN <<Number(array[1])>>
    ELSE <<Number(Head(array)), Punct(",")>> \o Elements(Tail(array))

RECURSIVE Members(_)
Members(object) ==
    IF object = <<>> THEN <<>>
    ELSE LET member == <<String(Head(object).key), Punct(":"), Punct("[")>>
                       \o Elements(Head(object).value) \o <<Punct("]")>>
         IN IF Len(object) = 1 THEN member
            ELSE member \o <<Punct(",")>> \o Members(Tail(object))

\* angular.toJson of a map from URL to array of numbers
toJson(object) == <<Punct("{")>> \o Members(object) \o <<Punct("}")>>

\* pako.deflateRaw(text, {to: 'string'}) and btoa(binary)
deflateRaw(text) == [deflate |-> TRUE, text |-> text]
btoa(binary) == [base64 |-> TRUE, binary |-> binary]

\* atob(string) and pako.inflateRaw(binary, {to: 'string'}): None when they throw
atob(string) == IF string.base64 THEN Some(string.binary) ELSE None
inflateRaw(binary) == IF binary.deflate THEN Some(binary.text) ELSE None

\* Result of parsing part of a text: whether it parsed, the position after
\* it, and its value
Failed == [ok |-> FALSE, next |-> 0, value |-> <<>>]
Parsed(next, value) == [ok |-> TRUE, next |-> next, value |-> value]

IsPunct(text, i, c) == i <= Len(text) /\ text[i] = Punct(c)

RECURSIVE ParseNumbers(_, _, _)
ParseNumbers(text, i, array) ==
    IF i > Len(text) \/ text[i].kind # "number" THEN Failed
    ELSE LET a == Append(array, text[i].number)
         IN IF IsPunct(text, i + 1, ",") THEN ParseNumbers(text, i + 2, a)
            ELSE IF IsPunct(text, i + 1, "]") THEN Parsed(i + 2, a)
            ELSE Failed

ParseArray(text, i) ==
    IF ~IsPunct(text, i, "[") THEN Failed
    ELSE IF IsPunct(text, i + 1, "]") THEN Parsed(i + 2, <<>>)
    ELSE ParseNumbers(text, i + 1, <<>>)

RECURSIVE ParseMembers(_, _, _)
ParseMembers(text, i, object) ==
    IF i > Len(text) \/ text[i].kind # "string" \/ ~IsPunct(text, i + 1, ":") THEN Failed
    ELSE LET array == ParseArray(text, i + 2)
         IN IF ~array.ok THEN Failed
            ELSE LET o == Put(object, text[i].text, array.value)
                 IN IF IsPunct(text, array.next, ",")
                    THEN ParseMembers(text, array.next + 1, o)
                    ELSE IF IsPunct(text, array.next, "}") THEN Parsed(array.next + 1, o)
                    ELSE Failed

\* angular.fromJson of the text of a map from URL to array of numbers: None
\* when JSON.parse throws
fromJson(text) ==
    LET parsed == IF ~IsPunct(text, 1, "{") THEN Failed
                  ELSE IF IsPunct(text, 2, "}") THEN Parsed(3, <<>>)
                  ELSE ParseMembers(text, 2, <<>>)
    IN IF parsed.ok /\ parsed.next = Len(text) + 1 THEN Some(parsed.value) ELSE None

\* addResult of pack
addResult(samplesByUrl, result) ==
    IF IsNone(result.roundTripStatistics) THEN samplesByUrl
    ELSE Put(samplesByUrl, result.server, Get(result.roundTripStatistics).samples)

\* samplesByUrl after angular.forEach(results, addResult)
RECURSIVE SamplesByUrl(_)
SamplesByUrl(results) ==
    IF results = <<>> THEN <<>>
    ELSE addResult(SamplesByUrl(SubSeq(results, 1, Len(results) - 1)), results[Len(results)])

\* Result.pack(results)
pack(results) == btoa(deflateRaw(toJson(SamplesByUrl(results))))

\* angular.fromJson(pako.inflateRaw(atob(packed), ...)): None when any of the
\* three throws
Decoded(packed) ==
    LET binary == atob(packed)
        text == IF IsNone(binary) THEN None ELSE inflateRaw(Get(binary))
    IN IF IsNone(text) THEN None ELSE fromJson(Get(text))

\* new Result({niceness, color, roundTripStatistics, complete: true}): name
\* and server are undefined until pushResultForServer assigns them
UnpackedResult(niceness, color, statistics) ==
    [name |-> None, server |-> None, niceness |-> Some(niceness), color |-> color,
     roundTripStatistics |-> statistics, complete |-> TRUE]

\* addResult of unpack: the Result resultsByUrl[url] is assigned
Reconstituted(thresholds, samples) ==
    LET statistics == Statistics(samples)
        niceness == getNiceness(thresholds.thresholds, Some(statistics))
    IN UnpackedResult(niceness, getColor(thresholds.thresholds, niceness), Some(statistics))

\* The Result pushResultForServer makes for a server without packed samples
Unreached(thresholds) ==
    LET niceness == getNiceness(thresholds.thresholds, None)
    IN UnpackedResult(niceness, getColor(thresholds.thresholds, niceness), None)

\* pushResultForServer that leaves out a server without packed samples
pushResultForServerIfPacked(st, resultsByUrl, unreached, server, name) ==
    LET found == Lookup(resultsByUrl, server)
    IN IF IsNone(found) THEN st
       ELSE [heap |-> [st.heap EXCEPT ![Get(found)].name = name, ![Get(found)].server = server],
             results |-> Append(st.results, Get(found))]

\* pushResultForServer: st.heap holds the Result objects made so far (index =
\* identity), resultsByUrl the identity of the Result of each packed URL
pushResultForServer(st, resultsByUrl, unreached, server, name) ==
    LET found == Lookup(resultsByUrl, server)
        h == IF IsNone(found) THEN Append(st.heap, unreached) ELSE st.heap
        result == IF IsNone(found) THEN Len(h) ELSE Get(found)
    IN [heap |-> [h EXCEPT ![result].name = name, ![result].server = server],
        results |-> Append(st.results, result)]

\* angular.forEach(servers, pushResultForServer) over the first count servers
RECURSIVE Pushed(_, _, _, _, _)
Pushed(live, count, reconstituted, resultsByUrl, unreached) ==
    IF count = 0 THEN [heap |-> <<>> \o reconstituted, results |-> <<>>]
    ELSE pushResultForServer(
             Pushed(live, count - 1, reconstituted, resultsByUrl, unreached),
             resultsByUrl, unreached, live[count], count)

\* resultsByUrl: packed member i is given the Result object i
ResultsByUrl(samplesByUrl) ==
    [i \in 1..Len(samplesByUrl) |-> [key |-> samplesByUrl[i].key, value |-> i]]

\* Result.unpack(servers, thresholds, packed) of part_004: None when it
\* throws, else the Result objects it made and the array it returns
unpack(live, thresholds, packed) ==
    LET samplesByUrl == Decoded(packed)
    IN IF IsNone(samplesByUrl) THEN None
       ELSE Some(Pushed(live, Len(live),
                        [i \in 1..Len(Get(samplesByUrl)) |->
                            Reconstituted(thresholds, Get(samplesByUrl)[i].value)],
                        ResultsByUrl(Get(samplesByUrl)), Unreached(thresholds)))

\* new Result({niceness, roundTripStatistics, complete: true}) of types/Result.js
RestoredResult(statistics) ==
    [name |-> None, server |-> None,
     niceness |-> IF IsNone(statistics) THEN Some(NICENESS_BINS)
                  ELSE Some(ResultGetNiceness(Get(statistics))),
     roundTripStatistics |-> statistics, complete |-> TRUE]

\* Result.unpack(servers, packed) of types/Result.js
ResultUnpack(live, packed) ==
    LET samplesByUrl == Decoded(packed)
    IN IF IsNone(samplesByUrl) THEN None
       ELSE Some(Pushed(live, Len(live),
                        [i \in 1..Len(Get(samplesByUrl)) |->
                            RestoredResult(Some(Statistics(Get(samplesByUrl)[i].value)))],
                        ResultsByUrl(Get(samplesByUrl)), RestoredResult(None)))

\* Sample arrays of the packed Results: 50 ms, and 60 ms with a deviation of 12 ms
PackedSamples == {<<50>>, <<72, 48, 60>>}
PackedOutcomes == {None} \cup {Some(Statistics(s)) : s \in PackedSamples}

\* Results of a finished test of servers with these URLs
PackedUrls == {UrlA, UrlB}
CompletedResults ==
    UNION {{[i \in 1..n |-> SettledResult(NewResult(i, tested[i].url), tested[i].outcome)] :
                tested \in [1..n -> [url : PackedUrls, outcome : PackedOutcomes]]} :
           n \in 0..MaxPacked}

\* Live server maps: servers kept, added, removed and sharing a URL
LiveServers == ServerLists({UrlA, UrlB, UrlC}, MaxLive)

\* Thresholds in effect when unpacking: the default ones and those of {}
UnpackThresholds == {DEFAULT_THRESHOLDS, Thresholds(<<>>)}

\* Values of the r parameter that no pack() produced: not base64, base64 of
\* bytes that are no deflate stream, and deflated text that is cut short
Undecodable ==
    { [base64 |-> FALSE, binary |-> [deflate |-> FALSE, text |-> <<>>]],
      [base64 |-> TRUE, binary |-> [deflate |-> FALSE, text |-> <<>>]],
      btoa(deflateRaw(<<Punct("{"), String(UrlA), Punct(":"), Punct("["), Number(50)>>)) }

\* The controller shows the permalink of the results
Pack ==
    /\ IsNone(permalink.packed)
    /\ permalink' = [permalink EXCEPT !.packed = Some(pack(permalink.results))]
    /\ UNCHANGED <<tester, measurement, classifier, cachedJSON, computed, probe, recommendation>>

\* Somebody follows a link whose r parameter is not a packed set of results
FollowLink(packed) ==
    /\ IsNone(permalink.packed)
    /\ permalink' = [permalink EXCEPT !.packed = Some(packed)]
    /\ UNCHANGED <<tester, measurement, classifier, cachedJSON, computed, probe, recommendation>>

\* Result.unpack(servers, thresholds, packed) is called
Unpack ==
    /\ ~IsNone(permalink.packed)
    /\ ~permalink.called
    /\ LET unpacked == unpack(permalink.servers, permalink.thresholds, Get(permalink.packed))
       IN permalink' = [permalink EXCEPT !.called = TRUE,
                                         !.threw = IsNone(unpacked),
                                         !.unpacked = unpacked]
    /\ UNCHANGED <<tester, measurement, classifier, cachedJSON, computed, probe, recommendation>>

\* Result.unpack(servers, packed) of types/Result.js is called
UnpackWithoutThresholds ==
    /\ ~IsNone(permalink.packed)
    /\ ~permalink.restoreCalled
    /\ LET restored == ResultUnpack(permalink.servers, Get(permalink.packed))
       IN permalink' = [permalink EXCEPT !.restoreCalled = TRUE,
                                         !.restoreThrew = IsNone(restored),
                                         !.restored = restored]
    /\ UNCHANGED <<tester, measurement, classifier, cachedJSON, computed, probe, recommendation>>

InitPermalink ==
    /\ SamplerConstructed
    /\ measurement = Idle({})
    /\ classifier = Unclassified
    /\ cachedJSON = Unread
    /\ computed = Unsampled
    /\ probe = Unprobed
    /\ recommendation = Unrecommended
    /\ permalink \in [results : CompletedResults, servers : LiveServers,
                      thresholds : UnpackThresholds, packed : {None},
                      called : {FALSE}, threw : {FALSE}, unpacked : {None},
                      restoreCalled : {FALSE}, restoreThrew : {FALSE}, restored : {None}]

NextPermalink ==
    \/ Pack
    \/ \E packed \in Undecodable : FollowLink(packed)
    \/ Unpack
    \/ UnpackWithoutThresholds

SpecPermalink == InitPermalink /\ [][NextPermalink]_vars

----------------------------------------------------------------------------
(* Properties of pack and unpack *)

\* No two entries of a sequence of URLs, or of Results, have the same URL
DistinctUrls(urls) == \A i, j \in 1..Len(urls) : urls[i] = urls[j] => i = j

\* The Result at position i of the array unpack returned
UnpackedAt(unpacked, i) == unpacked.heap[unpacked.results[i]]

\* unpack was given what pack made of the Results
RoundTripped ==
    /\ permalink.called
    /\ permalink.packed = Some(pack(permalink.results))

\* C21: when the live server map has pairwise distinct URLs, unpacking what
\* pack made of a completed Result set gives every live server that has a
\* Result in the set the niceness and color the thresholds give the statistics
\* of that Result, and the unreachable niceness and color when that Result
\* has no statistics.
C21_RoundTripClassifiesAlike ==
    (RoundTripped /\ DistinctUrls(permalink.servers)) =>
        /\ ~permalink.threw
        /\ \A i \in 1..Len(permalink.servers), j \in 1..Len(permalink.results) :
               permalink.results[j].server = permalink.servers[i] =>
                   LET t == permalink.thresholds.thresholds
                       niceness == getNiceness(t, permalink.results[j].roundTripStatistics)
                       result == UnpackedAt(Get(permalink.unpacked), i)
                   IN /\ result.niceness = Some(niceness)
                      /\ result.color = getColor(t, niceness)

\* The mapping a packed string decodes to, and the URLs that are its keys
PackedMapping(packed) == Get(Decoded(packed))
PackedKeys(packed) == {PackedMapping(packed)[k].key : k \in 1..Len(PackedMapping(packed))}

\* What C22 states of the array unpack returned for the live servers; the
\* Result unpack made for member k of the mapping is object k
Reconciled(live, packed, unpacked, terminal) ==
    /\ Len(unpacked.results) = Len(live)
    /\ \A i \in 1..Len(live) :
           LET result == UnpackedAt(unpacked, i)
           IN /\ result.name = i
              /\ result.server = live[i]
              /\ result.complete
              /\ live[i] \notin PackedKeys(packed) =>
                     /\ result.niceness = Some(terminal)
                     /\ IsNone(result.roundTripStatistics)
    /\ \A k \in 1..Len(PackedMapping(packed)) :
           (\A i \in 1..Len(live) : live[i] # PackedMapping(packed)[k].key) =>
               \A i \in 1..Len(unpacked.results) :
                   /\ unpacked.results[i] # k
                   /\ UnpackedAt(unpacked, i).server # PackedMapping(packed)[k].key

\* C22: when the live server map has pairwise distinct URLs and the packed
\* string decodes to a mapping, the array unpack returns has one complete
\* Result per live server, in the order of the live servers; a live server
\* whose URL is no key of the mapping has the unreachable niceness and no
\* statistics; a URL of the mapping that no live server has is in no Result
\* of the array.  Stated of both revisions of unpack.
C22_ReconciledWithLiveServers ==
    /\ (permalink.called /\ ~IsNone(Decoded(Get(permalink.packed)))
            /\ DistinctUrls(permalink.servers)) =>
           /\ ~permalink.threw
           /\ Reconciled(permalink.servers, Get(permalink.packed), Get(permalink.unpacked),
                         Len(permalink.thresholds.thresholds) - 1)
    /\ (permalink.restoreCalled /\ ~IsNone(Decoded(Get(permalink.packed)))
            /\ DistinctUrls(permalink.servers)) =>
           /\ ~permalink.restoreThrew
           /\ Reconciled(permalink.servers, Get(permalink.packed), Get(permalink.restored),
                         NICENESS_BINS)

\* Both revisions have unpacked a mapping with a key that no live server has,
\* for two live servers of which one has packed samples and one has none
C22_Witness ==
    /\ permalink.called /\ permalink.restoreCalled
    /\ ~permalink.threw /\ ~permalink.restoreThrew
    /\ permalink.servers = <<UrlC, UrlA>>
    /\ PackedKeys(Get(permalink.packed)) = {UrlB, UrlA}

----------------------------------------------------------------------------
(* restoreResults (connectionTestingService.js) *)

\* Most restoreResults() calls
MaxRestoreCalls == 1

\* Results of finished tests whose permalinks are followed: one server, and
\* two servers of which the second was unreachable
RestorableResults ==
    { <<SettledResult(NewResult(1, UrlA), Some(Statistics(<<50>>)))>>,
      <<SettledResult(NewResult(1, UrlB), Some(Statistics(<<72, 48, 60>>))),
        SettledResult(NewResult(2, UrlA), None)>> }

\* Values of the r parameter: what pack made of some Results, or not
PackedStrings == {pack(results) : results \in RestorableResults} \cup Undecodable

\* The identities of those Results unpack returned that have statistics
UnpackedIdsReached(h, unpacked) ==
    LET RECURSIVE Kept(_)
        Kept(n) == IF n = 0 THEN <<>>
                   ELSE IF IsNone(unpacked.heap[unpacked.results[n]].roundTripStatistics)
                        THEN Kept(n - 1)
                        ELSE Append(Kept(n - 1), Len(h) + unpacked.results[n])
    IN Kept(Len(unpacked.results))

\* The identities, in the scheduler's heap, of the Results unpack returned
UnpackedIds(h, unpacked) == [i \in 1..Len(unpacked.results) |-> Len(h) + unpacked.results[i]]

\* An assignment that clears the collection when unpack throws
AssignUnpackedOrEmpty(cr, h, unpacked) ==
    IF IsNone(unpacked) THEN Some(<<>>) ELSE Some(UnpackedIds(h, Get(unpacked)))

\* currentResults = Result.unpack(servers, packed): no assignment is made
\* when unpack throws
AssignUnpacked(cr, h, unpacked) ==
    IF IsNone(unpacked) THEN cr ELSE Some(UnpackedIds(h, Get(unpacked)))

\* service.restoreResults(packed), up to the call of configService.getServers()
RestoreResults(packed) ==
    /\ restoring.calls < MaxRestoreCalls
    /\ restoring' = [restoring EXCEPT !.calls = @ + 1,
                                      !.pending = IF ~IsNone(currentResults) THEN @
                                                  ELSE Append(@, packed)]
    /\ lastEvent' = Event("restoreResults", 0, 0, FALSE)
    /\ UNCHANGED <<servers, heap, currentResults, activeTests, runs, inFlight, requests,
                   calls, callLimit, deferredState, resolvedWith, notifications, polled,
                   trace>>
    /\ UNCHANGED others

\* receivedServerList of restoreResults: the oldest of its getServers()
\* promises resolves.  An exception of unpack ends the handler.
ReceivedServerListToRestore ==
    /\ restoring.pending # <<>>
    /\ LET unpacked == ResultUnpack(servers, Head(restoring.pending))
           threw == IsNone(unpacked)
           h == IF threw THEN heap ELSE heap \o Get(unpacked).heap
           cr == AssignUnpacked(currentResults, heap, unpacked)
       IN /\ restoring' = [restoring EXCEPT !.pending = Tail(@),
                                            !.failed = IF threw THEN @ + 1 ELSE @,
                                            !.restored = IF threw THEN @ ELSE @ + 1]
          /\ heap' = h
          /\ currentResults' = cr
          /\ notifications' = IF threw THEN notifications
                              ELSE Notify(notifications, deferredState, getStatus(cr, h))
          /\ deferredState' = IF threw THEN deferredState ELSE "resolved"
          /\ resolvedWith' = IF ~threw /\ deferredState = "pending" THEN cr ELSE resolvedWith
          /\ lastEvent' = Event("restored", 0, 0, threw)
    /\ UNCHANGED <<servers, activeTests, runs, inFlight, requests, calls, callLimit, polled,
                   trace>>
    /\ UNCHANGED others

\* The report page either restores the packed results or starts the test; any
\* other caller may start the test as well
InitRestore ==
    /\ servers \in LiveServers
    /\ callLimit = 1
    /\ Constructed
    /\ OthersConstructed

NextRestore ==
    \/ \E packed \in PackedStrings : RestoreResults(packed)
    \/ ReceivedServerListToRestore
    \/ \E c \in ConcurrencyArgs : StartTest(c)
    \/ ReceivedServerList
    \/ \E sampler \in inFlight, o \in Outcomes : SamplerSettled(sampler, o)

SpecRestore == InitRestore /\ [][NextRestore]_vars

----------------------------------------------------------------------------
(* Properties of restoreResults *)

\* C23: a restoreResults whose unpack throws changes nothing the scheduler
\* holds (Results, collection, active destinations, queues, promise) and
\* nothing getStatus() reports; when no test was started the collection is
\* still unset, no destination is active and getStatus() reports not started;
\* and a startTest() called afterwards while the collection is unset asks for
\* the server list as it does on a fresh service.
C23_Step ==
    /\ (lastEvent'.op = "restored" /\ lastEvent'.rejected) =>
           /\ UNCHANGED <<scheduler, requests>>
           /\ getStatus(currentResults', heap') = getStatus(currentResults, heap)
    /\ (restoring.failed > 0 /\ restoring.restored = 0 /\ calls = 0) =>
           /\ IsNone(currentResults)
           /\ activeTests = {}
           /\ ~getStatus(currentResults, heap).started
    /\ (restoring.failed > 0 /\ IsNone(currentResults) /\ lastEvent'.op = "startTest") =>
           /\ Len(requests') = Len(requests) + 1
           /\ SubSeq(requests', 1, Len(requests)) = requests

C23_FailedRestoreChangesNothing == [][C23_Step]_vars

\* The unpack of the only restoreResults() threw, and the test started
\* afterwards has completed with a Result for each of two servers
C23_Witness ==
    /\ restoring.failed = 1
    /\ lastEvent.op = "settled"
    /\ deferredState = "resolved"
    /\ resolvedWith = currentResults
    /\ Len(Get(currentResults)) = 2
    /\ getStatus(currentResults, heap).complete

\* One restoreResults() call has assigned the collection, no other is
\* waiting for the server list, and no test was started: no server list was
\* asked for by startTest or received for it
RestoredAlone ==
    /\ restoring.restored = 1
    /\ restoring.pending = <<>>
    /\ requests = <<>>
    /\ runs = <<>>

\* C30: once restoreResults(packed) has unpacked a packed string and no test
\* was started, getStatus() reports started, complete, not running, nothing
\* remaining and as many Results as there are live servers; the results
\* promise is resolved with the collection, whose i-th element is a complete
\* Result of the URL of the i-th live server; no sampler was started; and all
\* of this stays so, whatever is called afterwards.
C30_Step ==
    RestoredAlone =>
        /\ getStatus(currentResults, heap) = Status(0, Len(servers), TRUE, FALSE, TRUE)
        /\ deferredState = "resolved"
        /\ resolvedWith = currentResults
        /\ Len(Get(currentResults)) = Len(servers)
        /\ \A i \in 1..Len(servers) :
               /\ heap[Get(currentResults)[i]].server = servers[i]
               /\ heap[Get(currentResults)[i]].complete
        /\ trace = <<>>
        /\ inFlight = {}
        /\ activeTests = {}
        /\ RestoredAlone'
        /\ UNCHANGED scheduler

C30_RestoredIsCompleted == [][C30_Step]_vars

\* Results were restored for two live servers, one with packed samples and
\* one without, and a startTest() called afterwards started nothing
C30_Witness ==
    /\ RestoredAlone
    /\ calls = 1
    /\ lastEvent.op = "startTest"
    /\ servers = <<UrlB, UrlC>>
    /\ ~IsNone(heap[Get(currentResults)[1]].roundTripStatistics)
    /\ IsNone(heap[Get(currentResults)[2]].roundTripStatistics)

----------------------------------------------------------------------------
(* Statistics constructed from arbitrary sample arrays *)

\* Longest sample array
MaxSamples == 4

\* Sample values in milliseconds: equal, adjacent and distant ones
SampleValues == {0, 1, 3, 10}

SampleArrays == UNION {[1..n -> SampleValues] : n \in 0..MaxSamples}

\* new Statistics(samples)
NewStatistics ==
    /\ IsNone(computed.statistics)
    /\ computed' = [computed EXCEPT !.statistics = Some(Statistics(computed.samples))]
    /\ UNCHANGED <<tester, measurement, classifier, cachedJSON, permalink, probe, recommendation>>

\* new Statistics of the array holding twice each sample
NewStatisticsOfDoubled ==
    /\ IsNone(computed.doubled)
    /\ computed' = [computed EXCEPT !.doubled =
            Some(Statistics([i \in 1..Len(computed.samples) |-> 2 * computed.samples[i]]))]
    /\ UNCHANGED <<tester, measurement, classifier, cachedJSON, permalink, probe, recommendation>>

InitStatistics ==
    /\ SamplerConstructed
    /\ measurement = Idle({})
    /\ classifier = Unclassified
    /\ cachedJSON = Unread
    /\ permalink = Unpacked
    /\ probe = Unprobed
    /\ recommendation = Unrecommended
    /\ computed \in [samples : SampleArrays, statistics : {None}, doubled : {None}]

NextStatistics ==
    \/ NewStatistics
    \/ NewStatisticsOfDoubled

SpecStatistics == InitStatistics /\ [][NextStatistics]_vars

----------------------------------------------------------------------------
(* Properties of Statistics *)

\* The k-th smallest of the values of an array, by counting
OrderStatistic(values, k) ==
    CHOOSE v \in {values[i] : i \in 1..Len(values)} :
        /\ Cardinality({i \in 1..Len(values) : values[i] < v}) < k
        /\ Cardinality({i \in 1..Len(values) : values[i] <= v}) >= k

\* Twice the median as C24 states it: the middle value, or the average of
\* the two central values; 0 for no values
StatedMedian2(values) ==
    LET n == Len(values)
    IN IF n = 0 THEN 0
       ELSE IF n % 2 = 1 THEN 2 * OrderStatistic(values, (n + 1) \div 2)
       ELSE OrderStatistic(values, n \div 2) + OrderStatistic(values, n \div 2 + 1)

\* |sample - median| of every sample, in quarter milliseconds
StatedDeviations4(values, median4) ==
    [i \in 1..Len(values) |-> IF 4 * values[i] >= median4 THEN 4 * values[i] - median4
                              ELSE median4 - 4 * values[i]]

\* C24: the samples of a Statistics object are the given samples in ascending
\* order; its median is the middle sorted value, or the average of the two
\* central ones; its meanAbsoluteDeviation is the arithmetic mean and its
\* medianAbsoluteDeviation the median of |sample - median|; all three are 0
\* for no samples.  (median and medianAbsoluteDeviation are in quarter
\* milliseconds, meanAbsoluteDeviation is num / den quarter milliseconds.)
C24_StatisticsAsStated ==
    ~IsNone(computed.statistics) =>
        LET given == computed.samples
            stats == Get(computed.statistics)
            n == Len(given)
            deviations4 == StatedDeviations4(given, stats.median)
        IN /\ Len(stats.samples) = n
           /\ \A i \in 1..n : stats.samples[i] = OrderStatistic(given, i)
           /\ stats.median = 2 * StatedMedian2(given)
           /\ stats.meanAbsoluteDeviation.den > 0
           /\ n > 0 => stats.meanAbsoluteDeviation.num * n
                           = Sum(deviations4) * stats.meanAbsoluteDeviation.den
           /\ 2 * stats.medianAbsoluteDeviation = StatedMedian2(deviations4)
           /\ n = 0 => /\ stats.median = 0
                       /\ stats.meanAbsoluteDeviation.num = 0
                       /\ stats.medianAbsoluteDeviation = 0

\* Statistics of four unsorted samples whose median, 2 ms, lies between the
\* two central samples
C24_Witness ==
    /\ computed.samples = <<10, 0, 3, 1>>
    /\ ~IsNone(computed.statistics)
    /\ Get(computed.statistics).samples = <<0, 1, 3, 10>>
    /\ Get(computed.statistics).median = 8
    /\ Get(computed.statistics).meanAbsoluteDeviation = [num |-> 48, den |-> 4]

\* C25: for a non-empty sample array, the Statistics of the array holding
\* twice each sample have twice the median, twice the meanAbsoluteDeviation
\* and twice the medianAbsoluteDeviation.
C25_DoublingDoubles ==
    (~IsNone(computed.statistics) /\ ~IsNone(computed.doubled) /\ computed.samples # <<>>) =>
        LET stats == Get(computed.statistics)
            twice == Get(computed.doubled)
        IN /\ twice.median = 2 * stats.median
           /\ twice.meanAbsoluteDeviation.num * stats.meanAbsoluteDeviation.den
                  = 2 * stats.meanAbsoluteDeviation.num * twice.meanAbsoluteDeviation.den
           /\ twice.medianAbsoluteDeviation = 2 * stats.medianAbsoluteDeviation

\* Both Statistics objects exist for three samples whose mean absolute
\* deviation is a third of a millisecond
C25_Witness ==
    /\ computed.samples = <<0, 1, 0>>
    /\ ~IsNone(computed.statistics)
    /\ ~IsNone(computed.doubled)
    /\ Get(computed.statistics).meanAbsoluteDeviation = [num |-> 4, den |-> 3]
    /\ Get(computed.doubled).meanAbsoluteDeviation = [num |-> 8, den |-> 3]

----------------------------------------------------------------------------
(* Properties of a test of no servers, and of the notifications of a test *)

\* C27: when the test was started with an empty server list and nothing is
\* left to happen (no server-list request is pending and no sampler is in
\* flight), getStatus() reports started and complete and the results promise
\* is resolved with the empty collection.
C27_EmptyTestResolves ==
    (/\ Len(servers) = 0
     /\ Len(runs) >= 1
     /\ requests = <<>>
     /\ inFlight = {})
        => /\ getStatus(currentResults, heap).started
           /\ getStatus(currentResults, heap).complete
           /\ deferredState = "resolved"
           /\ resolvedWith = Some(<<>>)

\* The notifications of a test of T servers so far: remaining = T first, then
\* one less with each, complete exactly when remaining = 0
CountingDown(ns, T) ==
    \A k \in 1..Len(ns) :
        /\ ns[k].remaining = T - (k - 1)
        /\ ns[k].total = T
        /\ ns[k].started
        /\ ns[k].complete = (ns[k].remaining = 0)

\* C29: in a test of T servers the results promise is notified once when the
\* server list is received, with remaining = T, and once by each settling
\* sampler, with remaining one less than in the notification before; the
\* handler that resolves the promise has first published the notification
\* with complete = true, which is the (T + 1)-th, and none follows it.
C29_Step ==
    /\ lastEvent'.op = "receivedServerList" =>
           /\ Len(notifications') = 1
           /\ notifications'[1].remaining = Len(servers)
    /\ lastEvent'.op = "settled" =>
           /\ deferredState = "pending"
           /\ Len(notifications) >= 1
           /\ Len(notifications') = Len(notifications) + 1
           /\ notifications'[Len(notifications')].remaining
                  = notifications[Len(notifications)].remaining - 1
    /\ (deferredState = "pending" /\ deferredState' = "resolved") =>
           /\ Len(notifications) = Len(servers)
           /\ Len(notifications') = Len(servers) + 1
           /\ notifications'[Len(servers) + 1].complete
    /\ deferredState = "resolved" => notifications' = notifications
    /\ CountingDown(notifications', Len(servers))

C29_NotifiedOncePerResult == [][C29_Step]_vars

\* A test of three servers has resolved the promise after four notifications
C29_Witness ==
    /\ Len(servers) = 3
    /\ deferredState = "resolved"
    /\ Len(notifications) = 4
    /\ notifications[4].complete
    /\ ~notifications[3].complete

----------------------------------------------------------------------------
(* timingService.getTimestamps (src/unnamed/part_007).  A URL is here the   *)
(* sequence of its "/" and "#" characters and of the runs of characters     *)
(* between them.  Time is the client's clock in milliseconds.               *)

\* Latest time on the client's clock
MaxClock == 3

\* Server URLs: with and without trailing slash, and with a fragment
ProbedUrls ==
    { <<"https://a.example", "/">>,
      <<"https://a.example", "/", "guacamole">>,
      <<"https://a.example", "/", "guacamole", "#", "top">>,
      <<"https://a.example", "/", "guacamole", "/", "#", "/", "settings">> }

\* What the server's clock shows when it answers
ServerTimes == {0, 7}

\* new TimestampPair({serverTimestamp, clientTimestamp})
TimestampPair(serverTimestamp, clientTimestamp) ==
    [serverTimestamp |-> serverTimestamp, clientTimestamp |-> clientTimestamp]

\* serverUrl.indexOf('#'), counted in elements; 0 when there is none
RECURSIVE IndexOfHash(_, _)
IndexOfHash(serverUrl, i) ==
    IF i > Len(serverUrl) THEN 0
    ELSE IF serverUrl[i] = "#" THEN i
    ELSE IndexOfHash(serverUrl, i + 1)

\* The URL requested: the fragment stripped, a trailing slash appended if
\* missing, then 'api/ext/conntest/time'
RequestUrl(serverUrl) ==
    LET hash == IndexOfHash(serverUrl, 1)
        stripped == IF hash # 0 THEN SubSeq(serverUrl, 1, hash - 1) ELSE serverUrl
        slashed == IF stripped = <<>> \/ stripped[Len(stripped)] # "/"
                   THEN Append(stripped, "/") ELSE stripped
    IN slashed \o <<"api", "/", "ext", "/", "conntest", "/", "time">>

\* Responses of $http: the server's answer to the request (RootResource
\* echoes the timestamp parameter), a readable error status, or status 0 for
\* a network error, a timeout and a response the browser withholds
Responses(timestamp) ==
    {[status |-> 200, data |-> Some(TimestampPair(t, timestamp))] : t \in ServerTimes}
    \cup {[status |-> s, data |-> None] : s \in {404, 500, 0}}

\* $q.defer(), and resolve / reject of a deferred: the first call settles it,
\* later calls are ignored
Deferred == [state |-> "pending", value |-> None, calls |-> 0]
Resolve(deferred, value) ==
    IF deferred.state # "pending" THEN [deferred EXCEPT !.calls = @ + 1]
    ELSE [state |-> "resolved", value |-> Some(value), calls |-> deferred.calls + 1]
Reject(deferred) ==
    IF deferred.state # "pending" THEN [deferred EXCEPT !.calls = @ + 1]
    ELSE [state |-> "rejected", value |-> None, calls |-> deferred.calls + 1]

\* timestampRequestSucceeded
timestampRequestSucceeded(request, response) == Resolve(request, Get(response.data))

\* timestampRequestFailed that fakes the timestamp response for every failure
timestampRequestFailedFaked(request, response, timestamp, now) ==
    Resolve(request, TimestampPair(now, timestamp))

\* timestampRequestFailed
timestampRequestFailed(request, response, timestamp, now) ==
    IF response.status = 404 THEN Resolve(request, TimestampPair(now, timestamp))
    ELSE Reject(request)

\* service.getTimestamps(serverUrl, timeout), up to the return of the promise
GetTimestamps(serverUrl) ==
    /\ probe.phase = "idle"
    /\ probe' = [probe EXCEPT !.phase = "sent",
                              !.request = Deferred,
                              !.timestamp = probe.now,
                              !.url = RequestUrl(serverUrl)]
    /\ UNCHANGED <<tester, measurement, classifier, cachedJSON, permalink, computed,
                   recommendation>>

\* A millisecond passes
Tick ==
    /\ probe.now < MaxClock
    /\ probe' = [probe EXCEPT !.now = @ + 1]
    /\ UNCHANGED <<tester, measurement, classifier, cachedJSON, permalink, computed,
                   recommendation>>

\* The $http promise settles: then(timestampRequestSucceeded) runs when it is
\* fulfilled, and catch(timestampRequestFailed) when it is rejected
HttpSettled(response) ==
    /\ probe.phase = "sent"
    /\ probe' = [probe EXCEPT
           !.phase = "answered",
           !.response = Some(response),
           !.request = IF response.status = 200
                       THEN timestampRequestSucceeded(probe.request, response)
                       ELSE timestampRequestFailed(probe.request, response,
                                                   probe.timestamp, probe.now)]
    /\ UNCHANGED <<tester, measurement, classifier, cachedJSON, permalink, computed,
                   recommendation>>

InitProbe ==
    /\ SamplerConstructed
    /\ measurement = Idle({})
    /\ classifier = Unclassified
    /\ cachedJSON = Unread
    /\ permalink = Unpacked
    /\ computed = Unsampled
    /\ probe = [phase |-> "idle", now |-> 0, timestamp |-> 0, url |-> <<>>,
                request |-> Deferred, response |-> None]
    /\ recommendation = Unrecommended

NextProbe ==
    \/ \E serverUrl \in ProbedUrls : GetTimestamps(serverUrl)
    \/ Tick
    \/ \E response \in Responses(probe.timestamp) : HttpSettled(response)

SpecProbe == InitProbe /\ [][NextProbe]_vars

----------------------------------------------------------------------------
(* Properties of getTimestamps *)

\* C28: the promise of a probe is pending until the HTTP request settles and
\* is then settled by exactly one resolve or reject: resolved with the pair
\* the server sent when the request succeeded, resolved with a pair whose
\* clientTimestamp is the timestamp sent with the request when the status is
\* 404, and rejected for every other failure.
C28_ProbeSettlesOnce ==
    /\ probe.phase # "answered" =>
           /\ probe.request.state = "pending"
           /\ probe.request.calls = 0
    /\ probe.phase = "answered" =>
           LET response == Get(probe.response)
           IN /\ probe.request.calls = 1
              /\ response.status = 200 =>
                     /\ probe.request.state = "resolved"
                     /\ probe.request.value = response.data
              /\ response.status = 404 =>
                     /\ probe.request.state = "resolved"
                     /\ Get(probe.request.value).clientTimestamp = probe.timestamp
              /\ response.status \notin {200, 404} =>
                     /\ probe.request.state = "rejected"
                     /\ IsNone(probe.request.value)

\* A probe sent at 1 ms was answered with status 404 at 3 ms and resolved
\* with the pair faked then
C28_Witness ==
    /\ probe.phase = "answered"
    /\ probe.timestamp = 1
    /\ probe.now = 3
    /\ Get(probe.response).status = 404
    /\ probe.request.value = Some(TimestampPair(3, 1))

----------------------------------------------------------------------------
(* Properties of the order in which samplers are started *)

\* The run that constructed a Result: every receivedServerList constructs
\* one Result per server, in enumeration order
RunOf(id) == (id - 1) \div Len(servers) + 1

----------------------------------------------------------------------------
(* Properties of a finished test *)

\* The test is finished: getStatus() would report complete, or the results
\* promise has been resolved
Finished == getStatus(currentResults, heap).complete \/ deferredState = "resolved"

\* A step taken from a finished test
C34_Step ==
    Finished =>
        /\ getStatus(currentResults, heap)' = getStatus(currentResults, heap)
        /\ getStatus(currentResults, heap)'.complete
        /\ currentResults' = currentResults
        /\ trace' = trace

\* C34: once getStatus() has reported complete or the results promise has
\* been resolved, every later getStatus() reports complete with the same
\* total, the Result collection is not replaced and no sampler is started,
\* whatever startTest calls, restoreResults calls and server-list responses
\* follow.
C34_CompletionIsStable == [][C34_Step]_vars

\* The step that resolves the results promise
C35_Step ==
    (deferredState = "pending" /\ deferredState' = "resolved") =>
        /\ ~IsNone(currentResults')
        /\ resolvedWith' = currentResults'
        /\ \A i \in 1..Len(Get(currentResults')) : heap'[Get(currentResults')[i]].complete

\* C35: the results promise is resolved only in a state where every Result of
\* the current collection is complete, and it is resolved with the current
\* collection; until then it has no value.
C35_ResolvedWhenAllComplete ==
    /\ [](deferredState = "pending" => IsNone(resolvedWith))
    /\ [][C35_Step]_vars

\* The finally handler of the last sampler of a test of two servers resolved
\* the promise
C35_Witness ==
    /\ lastEvent.op = "settled"
    /\ deferredState = "resolved"
    /\ ~IsNone(resolvedWith)
    /\ Len(Get(resolvedWith)) = 2
    /\ restoring.restored = 0

----------------------------------------------------------------------------
(* The connection test together with the sampler it calls.  The sampler     *)
(* whose promise settles next is the one measurement follows; samplers of   *)
(* other Results that are in flight settle after it, each in its turn.      *)

\* Round trip times of the servers tested: 50 ms, and a stalled 1600 ms
MeasuredRoundTripTimes == {50, 1600}

\* statisticalMeasurementService.getRoundTripStatistics called by testServers
Measure ==
    /\ inFlight # {}
    /\ GetRoundTripStatistics

\* The promise getRoundTripStatistics returned settles and the handlers of
\* testServers run with what it settled with
Measured(sampler) ==
    /\ measurement.request \in {"resolved", "rejected"}
    /\ SamplerHandlers(sampler, measurement.stats)
    /\ measurement' = Idle(measurement.network)
    /\ UNCHANGED <<classifier, cachedJSON, permalink, computed, probe, recommendation>>

\* Server maps tested: one server, two destinations, and two servers of one
\* destination
MeasuredServers == {<<UrlA>>, <<UrlA, UrlC>>, <<UrlA, UrlB>>}

InitMeasured ==
    /\ servers \in MeasuredServers
    /\ callLimit = 1
    /\ Constructed
    /\ measurement = Idle(MeasuredRoundTripTimes)
    /\ classifier = Unclassified
    /\ cachedJSON = Unread
    /\ Untouched

NextMeasured ==
    \/ \E packed \in PackedStrings : RestoreResults(packed)
    \/ ReceivedServerListToRestore
    \/ StartTest(None)
    \/ ReceivedServerList
    \/ Measure
    \/ \E rtt \in measurement.network : TimestampsReceived(rtt, 0)
    \/ TestFailed
    \/ \E sampler \in inFlight : Measured(sampler)

SpecMeasured == InitMeasured /\ [][NextMeasured]_vars

----------------------------------------------------------------------------
(* Properties of the Results of a test and of a restored test *)

\* C36: every complete Result, whether a sampler of a run completed it or
\* unpack constructed it, has no roundTripStatistics exactly if its niceness
\* is the unreachable value NICENESS_BINS; statistics that are present hold
\* at least one sample and come with a niceness below NICENESS_BINS.
C36_StatisticsAbsentIffUnreachable ==
    \A id \in 1..Len(heap) :
        heap[id].complete =>
            /\ ~IsNone(heap[id].niceness)
            /\ IsNone(heap[id].roundTripStatistics) <=> Get(heap[id].niceness) = NICENESS_BINS
            /\ ~IsNone(heap[id].roundTripStatistics) =>
                   /\ Len(Get(heap[id].roundTripStatistics).samples) >= 1
                   /\ Get(heap[id].niceness) < NICENESS_BINS

\* A test measured one server until the time ran out and found the other
\* unreachable, and a link with three samples was restored
C36_Witness ==
    /\ \A id \in 1..Len(heap) : heap[id].complete
    /\ \E id \in 1..Len(heap) : IsNone(heap[id].roundTripStatistics)
    /\ \E id \in 1..Len(heap) :
           /\ ~IsNone(heap[id].roundTripStatistics)
           /\ Get(heap[id].roundTripStatistics).samples = <<48, 60, 72>>
    /\ \E id \in 1..Len(heap) :
           /\ ~IsNone(heap[id].roundTripStatistics)
           /\ Get(heap[id].roundTripStatistics).samples = <<50, 1600, 1600>>
    /\ lastEvent.op = "settled"
    /\ lastEvent.rejected

----------------------------------------------------------------------------
(* Properties of the array unpack returns *)

\* The array holds one Result object per live server, each with the name and
\* the server of its position
OnePerPosition(live, unpacked) ==
    /\ Len(unpacked.results) = Len(live)
    /\ \A i \in 1..Len(live) :
           /\ UnpackedAt(unpacked, i).name = i
           /\ UnpackedAt(unpacked, i).server = live[i]
    /\ \A i, j \in 1..Len(live) : i # j => unpacked.results[i] # unpacked.results[j]

\* C37: for every live server map, also one in which two names have the same
\* URL, element i of the array unpack returns has the name and server of live
\* entry i, and different positions hold different Result objects.
C37_OneResultPerLiveEntry ==
    /\ (permalink.called /\ ~permalink.threw) =>
           OnePerPosition(permalink.servers, Get(permalink.unpacked))
    /\ (permalink.restoreCalled /\ ~permalink.restoreThrew) =>
           OnePerPosition(permalink.servers, Get(permalink.restored))

----------------------------------------------------------------------------
(* Properties of the probes of one sampler run *)

\* The promise of the sampler is settled
Settled(m) == m.request \in {"resolved", "rejected"}

\* A step of a sampler run
C39_Step ==
    /\ measurement'.pings > measurement.pings =>
           /\ measurement'.pings = measurement.pings + 1
           /\ measurement.pinging = IF measurement.pings = 0 THEN 0 ELSE 1
           /\ measurement'.pinging = 1
           /\ measurement'.request = "pending"
           /\ measurement'.elapsed < MAX_SAMPLING_TIME
    /\ Settled(measurement) => measurement' = measurement
    /\ measurement'.request # measurement.request =>
           \/ measurement.request = "none" /\ measurement'.request = "pending"
           \/ measurement.request = "pending" /\ Settled(measurement')

\* C39: in one sampler run at most one probe is in flight at any time; a
\* further probe is issued only by the handler of the previous probe, while
\* the elapsed time that handler observed is below MAX_SAMPLING_TIME and the
\* promise is pending; the promise is settled once and for all, and after
\* that no probe is in flight or issued.
C39_OneProbeAtATime ==
    /\ [](measurement.pinging \in {0, 1})
    /\ [](Settled(measurement) => measurement.pinging = 0)
    /\ [][C39_Step]_vars

\* The sixth probe is in flight, after a round trip of 1600 ms among the five
\* before it
C39_Witness ==
    /\ measurement.request = "pending"
    /\ measurement.pings = 6
    /\ measurement.pinging = 1
    /\ measurement.elapsed >= 1600

----------------------------------------------------------------------------
(* A sampler run against a server that answers at once, with jitter *)

\* Round trip times of a server on the local network, in milliseconds, and
\* of a server that stalls
JitteryRoundTripTimes == {0, 1, 11, 1600}

InitJittery ==
    /\ SamplerConstructed
    /\ measurement = Idle(JitteryRoundTripTimes)
    /\ classifier = Unclassified
    /\ cachedJSON = Unread
    /\ Untouched

SpecJittery == InitJittery /\ [][NextSampler]_vars

\* C38: a sampler run cannot go on sampling for ever.  While the promise is
\* pending the elapsed time is below MAX_SAMPLING_TIME, it is at least the sum
\* of the samples, and from DESIRED_SAMPLE_SIZE samples on it exceeds twice
\* the number of samples (a set of n samples is accurate unless its absolute
\* deviations add up to more than MINIMUM_DEVIATION * n, which takes samples
\* that add up to more than half of that): a run makes fewer than
\* MAX_SAMPLING_TIME / 2 successful probes before it resolves, and a probe
\* that fails rejects it.
C38_SamplingIsBounded ==
    measurement.request = "pending" =>
        /\ measurement.elapsed < MAX_SAMPLING_TIME
        /\ Sum(measurement.samples) <= measurement.elapsed
        /\ Len(measurement.samples) >= DESIRED_SAMPLE_SIZE =>
               2 * Len(measurement.samples) < measurement.elapsed

\* Five samples whose deviation exceeds MINIMUM_DEVIATION were gathered
\* without delay and the sampler goes on sampling
C38_Witness ==
    /\ measurement.request = "pending"
    /\ measurement.samples = <<0, 11, 0, 0, 11>>
    /\ measurement.elapsed = 22
    /\ measurement.pinging = 1

----------------------------------------------------------------------------
(* automaticConnectionTest.js and the guacServerRecommendation directive:   *)
(* the testCompleted handler of the results promise.                        *)

\* Most Results of the completed test
MaxTested == 3

\* $window.location.origin + $window.location.pathname of the page
Locations == {UrlA, UrlB}

\* What the samplers of the completed test settled with: unreachable,
\* 110 ms, 150 ms, and a median of 100 ms with a deviation of 90 ms
TestedOutcomes ==
    {None} \cup {Some(Statistics(s)) : s \in {<<110>>, <<150>>, <<10, 100, 700>>}}

\* The collections of at most this many Results the results promise is
\* resolved with
TestedResults(longest) ==
    UNION {{[i \in 1..n |-> SettledResult(NewResult(i, tested[i].url), tested[i].outcome)] :
                tested \in [1..n -> [url : {UrlA, UrlB, UrlC}, outcome : TestedOutcomes]]} :
           n \in 0..longest}

\* CURRENT_URL
CURRENT_URL(location) == Append(location, "/")

\* url.substring(0, CURRENT_URL.length) === CURRENT_URL, for url = result.server.url + '/'
IsCurrent(result, location) ==
    LET url == Append(result.server, "/")
        current == CURRENT_URL(location)
    IN Len(url) >= Len(current) /\ SubSeq(url, 1, Len(current)) = current

\* The positions that may come first when the Results at these positions are
\* sorted with resultComparator: those of the least median (the order of
\* Results with equal medians is up to the sort)
FirstSorted(results, positions) ==
    {i \in positions :
        \A j \in positions : Get(results[i].roundTripStatistics).median
                                 <= Get(results[j].roundTripStatistics).median}

\* testCompleted(results): the positions of the Results it may recommend, or
\* None when it returns without recommending
Recommendations(results, location) ==
    LET reachable == {i \in 1..Len(results) : ~IsNone(results[i].roundTripStatistics)}
        current == {i \in reachable : IsCurrent(results[i], location)}
        alternatives == reachable \ current
    IN IF current = {} \/ alternatives = {} THEN {None}
       ELSE {IF Get(results[c].niceness) <= Get(results[a].niceness) THEN None ELSE Some(a) :
                 c \in FirstSorted(results, current),
                 a \in FirstSorted(results, alternatives)}

\* The results promise is resolved and testCompleted runs
TestCompleted ==
    /\ ~recommendation.completed
    /\ \E recommended \in Recommendations(recommendation.results, recommendation.location) :
           recommendation' = [recommendation EXCEPT !.completed = TRUE,
                                                    !.recommended = recommended]
    /\ UNCHANGED <<tester, measurement, classifier, cachedJSON, permalink, computed, probe>>

\* The user dismisses the recommendation ($scope.ignore)
Ignore ==
    /\ recommendation.completed
    /\ ~recommendation.ignored
    /\ recommendation' = [recommendation EXCEPT !.ignored = TRUE, !.recommended = None]
    /\ UNCHANGED <<tester, measurement, classifier, cachedJSON, permalink, computed, probe>>

InitRecommendation ==
    /\ SamplerConstructed
    /\ measurement = Idle({})
    /\ classifier = Unclassified
    /\ cachedJSON = Unread
    /\ permalink = Unpacked
    /\ computed = Unsampled
    /\ probe = Unprobed
    /\ recommendation \in [results : TestedResults(MaxTested), location : Locations,
                           completed : {FALSE}, recommended : {None}, ignored : {FALSE}]

NextRecommendation ==
    \/ TestCompleted
    \/ Ignore

SpecRecommendation == InitRecommendation /\ [][NextRecommendation]_vars

----------------------------------------------------------------------------
(* Properties of the recommendation *)

\* Reachable Results of the current server and of the other servers
ReachableCurrent ==
    {i \in 1..Len(recommendation.results) :
        /\ ~IsNone(recommendation.results[i].roundTripStatistics)
        /\ IsCurrent(recommendation.results[i], recommendation.location)}
ReachableAlternatives ==
    {i \in 1..Len(recommendation.results) :
        /\ ~IsNone(recommendation.results[i].roundTripStatistics)
        /\ ~IsCurrent(recommendation.results[i], recommendation.location)}

\* C31: when the test has completed, a server is recommended if and only if
\* the current server has a reachable Result and a reachable alternative has
\* a niceness strictly lower than the current server's; the server
\* recommended is such an alternative, never an unreachable one.  Where the
\* current server has several Results, "lower than the current server's" is
\* read as lower than some of them for the recommendation made and as lower
\* than all of them for the recommendation owed.
C31_RecommendedIffBetter ==
    (recommendation.completed /\ ~recommendation.ignored) =>
        /\ ~IsNone(recommendation.recommended) =>
               /\ Get(recommendation.recommended) \in ReachableAlternatives
               /\ \E c \in ReachableCurrent :
                      Get(recommendation.results[Get(recommendation.recommended)].niceness)
                          < Get(recommendation.results[c].niceness)
        /\ (/\ ReachableCurrent # {}
            /\ \E a \in ReachableAlternatives : \A c \in ReachableCurrent :
                   Get(recommendation.results[a].niceness)
                       < Get(recommendation.results[c].niceness))
               => ~IsNone(recommendation.recommended)

----------------------------------------------------------------------------
(* Properties of reloading the configuration file *)

\* The file has stopped changing and what it holds is valid
FinalAndValid ==
    /\ cachedJSON.modifications = MaxModifications
    /\ cachedJSON.file.content.parses
    /\ ~cachedJSON.file.content.value.null
    /\ cachedJSON.subclass = "Thresholds" => StatedValid(cachedJSON.file.content.value.keys)

\* A step of a getValue() call that began after the last modification
C32_Step ==
    (FinalAndValid /\ ~cachedJSON.reading) =>
        /\ ~IsNone(cachedJSON'.returned) =>
               cachedJSON'.returned = Some(cachedJSON.file.content.value)
        /\ cachedJSON'.reading => cachedJSON'.cachedValue = cachedJSON.file.content.value

\* C32: whatever the interleaving of modifications of the file with getValue()
\* calls, also when the file is modified while getValue() reads it, every
\* getValue() call made after the file has stopped changing returns the value
\* parsed from its final content, if that content is valid.
C32_ReloadedWhenChanged == [][C32_Step]_vars

====
